---- MODULE Spec2Model ----
(***************************************************************************)
(* DemoGraph: drill-down navigation (nation / state / counties), the       *)
(* county detail modal with its Census fetch, and the county history panel *)
(* with its pinned baseline.                                               *)
(*                                                                         *)
(* Identifiers are FIPS strings in the source ("06", "06037").  They are   *)
(* modelled as sequences of decimal digits so that slice / substring /     *)
(* padStart are computed, not assumed: "06037" is <<0,6,0,3,7>>.           *)
(* JavaScript null is None (the empty sequence) for identifiers and Null   *)
(* (-1) for numeric fields.                                                *)
(***************************************************************************)
EXTENDS Integers, Sequences, FiniteSets, TLC

VARIABLES
    currentState,        \* part_002:87   selected state id, or None
    inactive,            \* ids of the state paths carrying class "inactive"
    svgTransition,       \* pending zoom transition of the svg element
    gCounties,           \* the path.county elements under gCounties, DOM order
    modalActive,         \* #modal has class "active"
    modalView,           \* what the modal body currently shows
    demographicsData,    \* part_002:89   fips -> record (NoData when absent)
    inFlight,            \* outstanding fetchCensusData promises per fips
    countyHistory,       \* part_002:60
    pinnedBaselineFips,  \* part_002:61
    historyPanel,        \* the rendered #history-items cards
    seen,                \* every unit recorded so far, most recent first
    revisits,            \* history driver: number of repeat visits made
    cache,               \* census.js:3   key -> stats record
    statsInFlight,       \* outstanding fetchCountyStats promises (a bag)
    loadingOverlay,      \* #loading-overlay is displayed
    resolvedStats,       \* what the last hook call of fetchCountyStats got
    storedBy,            \* key -> arguments of the call whose result is cached
    statsFetched,        \* key -> number of results written to the cache
    aggInput,            \* aggregation driver: the mapping handed in
    aggResult,           \* aggregation driver: the function and its result
    demoRunning,         \* part_002:1896
    tours,               \* the runDemo calls so far, each with its position
    lastOp               \* the handler that ran last, with its argument

vars == <<currentState, inactive, svgTransition, gCounties, modalActive,
          modalView, demographicsData, inFlight, countyHistory,
          pinnedBaselineFips, historyPanel, seen, revisits, cache,
          statsInFlight, loadingOverlay, resolvedStats, storedBy,
          statsFetched, aggInput, aggResult, demoRunning, tours, lastOp>>

navVars == <<currentState, inactive, svgTransition, gCounties>>
modalVars == <<modalActive, modalView>>
dataVars == <<demographicsData, inFlight>>
histVars == <<countyHistory, pinnedBaselineFips, historyPanel, seen>>
aggVars == <<aggInput, aggResult>>
demoVars == <<demoRunning, tours>>
driverVars == <<revisits, aggVars, demoVars>>
acsVars == <<cache, statsInFlight, loadingOverlay, resolvedStats, storedBy,
             statsFetched>>

(***************************************************************************)
(* Values                                                                  *)
(***************************************************************************)
None == <<>>
Null == -1

HistoryLimit == 10

\* Bounds of the model.
MaxInFlight == 2
HistUnits == 11
HistMaxRevisits == 1

\* "06" + "037": a county id is the state code followed by three digits.
CountyId(st, n) == st \o <<n \div 100, (n \div 10) % 10, n % 10>>

\* The input geography (us-states.json / us-counties.json), in file order.
\* The counties of the two states are interleaved so that filtering by state
\* is observable in the order of the result.
allStates == << <<0, 1>>, <<0, 2>> >>
allCounties == << CountyId(<<0, 1>>, 1), CountyId(<<0, 2>>, 1),
                  CountyId(<<0, 1>>, 3) >>

Range(s) == { s[i] : i \in 1..Len(s) }
StateIds == Range(allStates)
CountyIds == Range(allCounties)

\* A DemographicRecord reduced to the fields the history snapshot reads.
Rec(p, a, i) == [population |-> p, medianAge |-> a, medianIncome |-> i]
NoData == [absent |-> TRUE]

\* demographics.json: records shipped with the application.
LocalFips == { CountyId(<<0, 1>>, 1), CountyId(<<0, 1>>, 3) }
LocalData == [f \in CountyIds |->
                IF f \in LocalFips THEN Rec(500, 40, 60) ELSE NoData]

\* What a successful fetchCensusData can return for a unit: population is
\* +core[1] || 0, medianAge +core[2] || null, income from +core[3].
FetchResults == { Rec(300, 35, 70), Rec(700, Null, Null) }

(***************************************************************************)
(* History panel                                                           *)
(***************************************************************************)
Entry(f, d) == [fips |-> f, population |-> d.population,
                medianAge |-> d.medianAge, medianIncome |-> d.medianIncome]

NoEntry == [none |-> TRUE]
Op(o, a) == [op |-> o, arg |-> a, entry |-> NoEntry]
OpRec(o, a, e) == [op |-> o, arg |-> a, entry |-> e]
\* A handler that ran because of an error k.
OpErr(o, a, e, k) == [op |-> o, arg |-> a, entry |-> e, error |-> k]

RECURSIVE Filter(_, _)
\* Array.prototype.filter(c => c.fips !== f)
Filter(h, f) ==
    IF h = <<>> THEN <<>>
    ELSE IF Head(h).fips # f THEN <<Head(h)>> \o Filter(Tail(h), f)
         ELSE Filter(Tail(h), f)

\* slice(-n) in place of slice(0, n): keeps the tail.
SliceLast(h, n) == SubSeq(h, IF Len(h) < n THEN 1 ELSE Len(h) - n + 1, Len(h))

\* Array.prototype.slice(0, n)
Slice0(h, n) == SubSeq(h, 1, IF Len(h) < n THEN Len(h) ELSE n)

\* Variants of recordCountyHistory with a plausible slip each: the truncation
\* forgotten, and the entry pushed instead of unshifted.
recordCountyHistoryNoSlice(h, e) == <<e>> \o Filter(h, e.fips)
recordCountyHistoryPush(h, e) ==
    Slice0(Append(Filter(h, e.fips), e), HistoryLimit)

\* recordCountyHistory without the filter that drops the unit's old entry.
recordCountyHistoryNoFilter(h, e) == Slice0(<<e>> \o h, HistoryLimit)

\* recordCountyHistory keeping references to the stored records: every kept
\* entry shows the fields its unit's record has now.
recordCountyHistoryLive(h, e) ==
    LET live(x) ==
            IF x.fips \in DOMAIN demographicsData
                  /\ demographicsData[x.fips] # NoData
            THEN Entry(x.fips, demographicsData[x.fips])
            ELSE x
        kept == Filter(h, e.fips)
    IN  Slice0(<<e>> \o [i \in 1..Len(kept) |-> live(kept[i])], HistoryLimit)

\* recordCountyHistory: filter, unshift, slice(0, 10)
recordCountyHistory(h, e) == Slice0(<<e>> \o Filter(h, e.fips), HistoryLimit)

\* The comparator with its two results exchanged.
pinCompareSwapped(a, b, pin) ==
    LET aIsPinned == a.fips = pin
        bIsPinned == b.fips = pin
    IN  IF aIsPinned /\ ~bIsPinned THEN 1
        ELSE IF ~aIsPinned /\ bIsPinned THEN -1
        ELSE 0

\* The comparator of renderHistoryPanel's sort.
pinCompare(a, b, pin) ==
    LET aIsPinned == a.fips = pin
        bIsPinned == b.fips = pin
    IN  IF aIsPinned /\ ~bIsPinned THEN -1
        ELSE IF ~aIsPinned /\ bIsPinned THEN 1
        ELSE 0

RECURSIVE InsertSorted(_, _, _)
\* Array.prototype.sort is stable: x goes behind every element it does not
\* strictly precede.
InsertSorted(s, x, pin) ==
    IF s = <<>> THEN <<x>>
    ELSE IF pinCompare(x, Head(s), pin) < 0 THEN <<x>> \o s
         ELSE <<Head(s)>> \o InsertSorted(Tail(s), x, pin)

RECURSIVE SortByPin(_, _)
SortByPin(h, pin) ==
    IF h = <<>> THEN <<>>
    ELSE InsertSorted(SortByPin(SubSeq(h, 1, Len(h) - 1), pin), h[Len(h)], pin)

\* countyHistory.findIndex(c => c.fips === f), counted from 1; 0 for -1.
FindIndex(h, f) ==
    IF \E i \in 1..Len(h) : h[i].fips = f
    THEN CHOOSE i \in 1..Len(h) :
            /\ h[i].fips = f
            /\ \A j \in 1..(i - 1) : h[j].fips # f
    ELSE 0

\* countyHistory.find(c => c.fips === f); NoEntry for undefined.
Find(h, f) == IF FindIndex(h, f) = 0 THEN NoEntry ELSE h[FindIndex(h, f)]

\* trend with "up" and "down" exchanged.
trendSwapped(a, b) ==
    IF a = Null \/ b = Null THEN "null"
    ELSE IF a > b THEN "down"
    ELSE IF a < b THEN "up"
    ELSE "same"

\* trend(a, b) inside compareToBaseline
trend(a, b) ==
    IF a = Null \/ b = Null THEN "null"
    ELSE IF a > b THEN "up"
    ELSE IF a < b THEN "down"
    ELSE "same"

NoTrends == [none |-> TRUE]

\* compareToBaseline that ignores the pin and always uses the newest entry.
compareToBaselineNewest(h, pin, currentIndex) ==
    IF Len(h) = 0 THEN NoTrends
    ELSE LET baseline == h[1]
             curr == IF currentIndex \in 1..Len(h) THEN h[currentIndex]
                     ELSE NoEntry
         IN  IF curr = NoEntry \/ baseline = curr THEN NoTrends
             ELSE [population |-> trend(curr.population, baseline.population),
                   medianAge |-> trend(curr.medianAge, baseline.medianAge),
                   medianIncome |->
                       trend(curr.medianIncome, baseline.medianIncome)]

\* compareToBaseline(currentIndex), with the two globals it reads as
\* parameters and the index counted from 1.
compareToBaseline(h, pin, currentIndex) ==
    IF Len(h) = 0 THEN NoTrends
    ELSE LET baseline == IF pin # None THEN Find(h, pin) ELSE h[1]
             curr == IF currentIndex \in 1..Len(h) THEN h[currentIndex]
                     ELSE NoEntry
         IN  IF baseline = NoEntry \/ curr = NoEntry \/ baseline = curr
             THEN NoTrends
             ELSE [population |-> trend(curr.population, baseline.population),
                   medianAge |-> trend(curr.medianAge, baseline.medianAge),
                   medianIncome |->
                       trend(curr.medianIncome, baseline.medianIncome)]

\* renderHistoryPanel: one card per entry of the sorted copy, with the trends
\* of the entry; the card's pin handler closes over entry.fips and isPinned as
\* they were when rendered.
renderHistoryPanel(h, pin) ==
    LET sortedHistory == SortByPin(h, pin)
    IN  [i \in 1..Len(sortedHistory) |->
            [entry |-> sortedHistory[i],
             isPinned |-> sortedHistory[i].fips = pin,
             trends |-> compareToBaseline(
                            h, pin, FindIndex(h, sortedHistory[i].fips))]]

\* recordCountyHistory without its call of renderHistoryPanel.
RecordVisitNoRender(e) ==
    /\ countyHistory' = recordCountyHistory(countyHistory, e)
    /\ seen' = <<e.fips>> \o SelectSeq(seen, LAMBDA f : f # e.fips)
    /\ UNCHANGED <<pinnedBaselineFips, historyPanel>>

\* recordCountyHistory as a step: the new list and the re-rendered panel.
RecordVisit(e) ==
    /\ countyHistory' = recordCountyHistory(countyHistory, e)
    /\ historyPanel' = renderHistoryPanel(countyHistory', pinnedBaselineFips)
    /\ seen' = <<e.fips>> \o SelectSeq(seen, LAMBDA f : f # e.fips)
    /\ UNCHANGED pinnedBaselineFips

\* The pin handler without its unpin branch.
PinClickAlwaysSets(i) ==
    /\ i \in 1..Len(historyPanel)
    /\ pinnedBaselineFips' = historyPanel[i].entry.fips
    /\ historyPanel' = renderHistoryPanel(countyHistory, pinnedBaselineFips')
    /\ lastOp' = Op("togglePin", historyPanel[i].entry.fips)
    /\ UNCHANGED <<countyHistory, seen, navVars, modalVars, dataVars,
                   driverVars, acsVars>>

\* Click on the pin button of card i.
PinClick(i) ==
    /\ i \in 1..Len(historyPanel)
    /\ pinnedBaselineFips' =
          IF historyPanel[i].isPinned THEN None ELSE historyPanel[i].entry.fips
    /\ historyPanel' = renderHistoryPanel(countyHistory, pinnedBaselineFips')
    /\ lastOp' = Op("togglePin", historyPanel[i].entry.fips)
    /\ UNCHANGED <<countyHistory, seen, navVars, modalVars, dataVars,
                   driverVars, acsVars>>

(***************************************************************************)
(* Navigation                                                              *)
(***************************************************************************)
RECURSIVE SelectIds(_, _)
\* counties.filter(c => c.id.slice(0, 2) === stateId)
SelectIds(cs, stateId) ==
    IF cs = <<>> THEN <<>>
    ELSE IF SubSeq(Head(cs), 1, 2) = stateId
         THEN <<Head(cs)>> \o SelectIds(Tail(cs), stateId)
         ELSE SelectIds(Tail(cs), stateId)

DomIds == { gCounties[i].id : i \in 1..Len(gCounties) }
Ids(dom) == [i \in 1..Len(dom) |-> dom[i].id]
\* The county paths on screen that are not fading out towards .remove().
VisibleCounties == Ids(SelectSeq(gCounties, LAMBDA c : ~c.exiting))
Exiting == { i \in 1..Len(gCounties) : gCounties[i].exiting }

RECURSIVE EnterAppend(_, _)
\* selection.data(stateCounties, d => d.id).enter().append("path"): only the
\* data without an element get one; nothing is done with the exit selection.
EnterAppend(dom, data) ==
    IF data = <<>> THEN dom
    ELSE IF Head(data) \in { dom[i].id : i \in 1..Len(dom) }
         THEN EnterAppend(dom, Tail(data))
         ELSE EnterAppend(Append(dom, [id |-> Head(data), exiting |-> FALSE]),
                          Tail(data))

\* zoomOut without the county exit transition.
zoomOutKeepsCounties ==
    /\ currentState' = None
    /\ inactive' = {}
    /\ svgTransition' = None
    /\ UNCHANGED gCounties

\* zoomOut: every county path gets the exit transition that ends in .remove();
\* the new svg transition replaces a pending zoom transition.
zoomOut ==
    /\ currentState' = None
    /\ gCounties' = [i \in 1..Len(gCounties) |->
                        [gCounties[i] EXCEPT !.exiting = TRUE]]
    /\ inactive' = {}
    /\ svgTransition' = None

\* zoomToState without the toggle on the selected state.
zoomToStateNoToggle(s) ==
    /\ currentState' = s
    /\ inactive' = StateIds \ {s}
    /\ svgTransition' = s
    /\ UNCHANGED gCounties

\* zoomToState that leaves any selected state through zoomOut first.
zoomToStateViaOverview(s) ==
    IF currentState # None
    THEN zoomOut
    ELSE /\ currentState' = s
         /\ inactive' = StateIds \ {s}
         /\ svgTransition' = s
         /\ UNCHANGED gCounties

\* zoomToState
zoomToState(s) ==
    IF currentState # None /\ currentState = s
    THEN zoomOut
    ELSE /\ currentState' = s
         /\ inactive' = StateIds \ {s}
         /\ svgTransition' = s
         /\ UNCHANGED gCounties

\* A zoom that waits until no fetch is outstanding.
ZoomToStateWhenIdle(s) ==
    /\ \A f \in CountyIds : inFlight[f] = 0
    /\ zoomToState(s)
    /\ lastOp' = Op("zoomToState", s)
    /\ UNCHANGED <<modalVars, dataVars, histVars, driverVars, acsVars>>

ZoomToState(s) ==
    /\ zoomToState(s)
    /\ lastOp' = Op("zoomToState", s)
    /\ UNCHANGED <<modalVars, dataVars, histVars, driverVars, acsVars>>

\* #crumb-us click, app.zoomOut()
ZoomOut ==
    /\ zoomOut
    /\ lastOp' = Op("zoomOut", None)
    /\ UNCHANGED <<modalVars, dataVars, histVars, driverVars, acsVars>>

\* revealCounties(state): filter the geography, join, append what enters.
revealCounties(state) ==
    EnterAppend(gCounties, SelectIds(allCounties, state.id))

\* "end" of the zoom transition that zoomToState started on the svg element.
\* A transition created later on the same element (zoomToState, zoomOut)
\* replaces the pending one, whose "end" listener then never runs, so at most
\* one reveal is pending.  The 250 ms exit transition of zoomOut was created
\* before any zoom transition that is still pending and is shorter than its
\* 750 ms, so it has ended by the time the reveal runs.
RevealCounties ==
    /\ svgTransition # None
    /\ Exiting = {}
    /\ gCounties' = revealCounties([id |-> svgTransition])
    /\ svgTransition' = None
    /\ lastOp' = Op("revealCounties", svgTransition)
    /\ UNCHANGED <<currentState, inactive, modalVars, dataVars, histVars,
                   driverVars, acsVars>>

\* End of the 250 ms exit transition started by zoomOut: .remove()
RemoveCounties ==
    /\ Exiting # {}
    /\ gCounties' = SelectSeq(gCounties, LAMBDA c : ~c.exiting)
    /\ lastOp' = Op("removeCounties", None)
    /\ UNCHANGED <<currentState, inactive, svgTransition, modalVars, dataVars,
                   histVars, driverVars, acsVars>>

\* The Escape handler without its zoomOut branch.
EscapeModalOnly ==
    /\ modalActive' = FALSE
    /\ lastOp' = Op("escape", None)
    /\ UNCHANGED <<modalView, navVars, dataVars, histVars, driverVars, acsVars>>

\* body keydown, event.key === "Escape"
Escape ==
    /\ IF modalActive
       THEN /\ modalActive' = FALSE
            /\ UNCHANGED <<modalView, navVars>>
       ELSE IF currentState # None
            THEN zoomOut /\ UNCHANGED modalVars
            ELSE UNCHANGED <<modalVars, navVars>>
    /\ lastOp' = Op("escape", None)
    /\ UNCHANGED <<dataVars, histVars, driverVars, acsVars>>

(***************************************************************************)
(* County modal and fetch                                                  *)
(***************************************************************************)
View(k, f) == [kind |-> k, fips |-> f]

\* openCountyModal(county, state): what the function does.
openCountyModal(f) ==
    IF demographicsData[f] = NoData
    THEN \* fetchCountyDemographics: loading view, fetch started
         /\ inFlight[f] < MaxInFlight
         /\ modalView' = View("loading", f)
         /\ modalActive' = TRUE
         /\ inFlight' = [inFlight EXCEPT ![f] = @ + 1]
         /\ UNCHANGED <<demographicsData, histVars>>
    ELSE /\ modalView' = View("data", f)
         /\ modalActive' = TRUE
         /\ RecordVisit(Entry(f, demographicsData[f]))
         /\ UNCHANGED dataVars

\* The entry openCountyModal records, NoEntry when it starts a fetch instead.
openCountyModalEntry(f) ==
    IF demographicsData[f] = NoData THEN NoEntry
    ELSE Entry(f, demographicsData[f])

\* Click on a county path, or a search result opening its county.
OpenCountyModal(f) ==
    /\ f \in CountyIds
    /\ openCountyModal(f)
    /\ lastOp' = OpRec("openCountyModal", f, openCountyModalEntry(f))
    /\ UNCHANGED <<navVars, driverVars, acsVars>>

\* fetchCensusData resolved with a record: the .then branch with data.
FetchResolved(f, d) ==
    /\ f \in CountyIds /\ inFlight[f] > 0
    /\ d \in FetchResults
    /\ inFlight' = [inFlight EXCEPT ![f] = @ - 1]
    /\ demographicsData' = [demographicsData EXCEPT ![f] = d]
    /\ modalView' = View("data", f)
    /\ RecordVisit(Entry(f, d))
    /\ lastOp' = OpRec("fetchResolved", f, Entry(f, d))
    /\ UNCHANGED <<modalActive, navVars, driverVars, acsVars>>

\* How a request can fail: the transport rejects, or the API answers with an
\* error status or without a data row.
FetchErrors == { "transport", "application" }

\* fetchCensusData caught error k and returned null: showFetchError.
FetchFailed(f, k) ==
    /\ f \in CountyIds /\ inFlight[f] > 0
    /\ k \in FetchErrors
    /\ inFlight' = [inFlight EXCEPT ![f] = @ - 1]
    /\ modalView' = View("error", f)
    /\ lastOp' = OpErr("fetchFailed", f, NoEntry, k)
    /\ UNCHANGED <<modalActive, demographicsData, navVars, histVars,
                   driverVars, acsVars>>

\* A closeModal that also drops the pinned baseline.
CloseModalUnpins ==
    /\ modalActive
    /\ modalActive' = FALSE
    /\ pinnedBaselineFips' = None
    /\ historyPanel' = renderHistoryPanel(countyHistory, None)
    /\ lastOp' = Op("closeModal", None)
    /\ UNCHANGED <<modalView, navVars, dataVars, countyHistory, seen,
                   driverVars, acsVars>>

\* closeModal
CloseModal ==
    /\ modalActive
    /\ modalActive' = FALSE
    /\ lastOp' = Op("closeModal", None)
    /\ UNCHANGED <<modalView, navVars, dataVars, histVars, driverVars, acsVars>>

(***************************************************************************)
(* ACS statistics: fetchCountyStats with its cache, and the double-click   *)
(* path openCountyModalWithACS / openCountyModalWithStats.  A double-click *)
(* is delivered after the click events of the same gesture, so the         *)
(* dblclick handler runs right after a click handler of the same county.   *)
(* A call of an async function whose result is already available continues *)
(* in a microtask: no other handler runs in between.                       *)
(***************************************************************************)
\* Bound of the model: fetchCountyStats promises outstanding at once.
MaxStatsInFlight == 2

\* Arguments of fetchCountyStats are numbers or strings.
Num(n) == [type |-> "number", val |-> n]
Str(s) == [type |-> "string", val |-> s]

RECURSIVE Digits(_)
\* Number.prototype.toString of a non-negative integer
Digits(n) == IF n < 10 THEN <<n>> ELSE Digits(n \div 10) \o <<n % 10>>

\* x.toString()
toString(x) == IF x.type = "number" THEN Digits(x.val) ELSE x.val

RECURSIVE padStart(_, _)
\* String.prototype.padStart(n, '0')
padStart(s, n) == IF Len(s) >= n THEN s ELSE padStart(<<0>> \o s, n)

\* String.prototype.slice(a, b) for 0 <= a <= b
slice(s, a, b) == SubSeq(s, a + 1, IF b < Len(s) THEN b ELSE Len(s))

\* The cache key without the zero padding.
statsKeyUnpadded(stateFIPS, countyFIPS) ==
    toString(stateFIPS) \o toString(countyFIPS)

\* census.js:7-9  key = `${stateFIPSStr}${countyFIPSStr}`
statsKey(stateFIPS, countyFIPS) ==
    padStart(toString(stateFIPS), 2) \o padStart(toString(countyFIPS), 3)

\* The result object reduced to the fields read afterwards; medianIncome is
\* num(subjRow[1]): a number, or null.
StatsRec(key, inc) == [fips |-> key, medianIncome |-> inc]
StatsIncomes == { 80, Null }

\* The history snapshot openCountyModalWithStats records.
StatsEntry(stats) ==
    [fips |-> stats.fips, population |-> Null, medianAge |-> Null,
     medianIncome |-> stats.medianIncome]

\* Map.prototype.set
Put(m, k, v) == [x \in DOMAIN m \cup {k} |-> IF x = k THEN v ELSE m[x]]

\* The outstanding promises are a bag of requests.
Req(key, caller, county, args) ==
    [key |-> key, caller |-> caller, county |-> county, args |-> args]
BagAdd(b, r) == IF r \in DOMAIN b THEN [b EXCEPT ![r] = @ + 1] ELSE Put(b, r, 1)
BagDel(b, r) ==
    IF b[r] > 1 THEN [b EXCEPT ![r] = @ - 1]
    ELSE IF DOMAIN b = {r} THEN <<>>
    ELSE [x \in DOMAIN b \ {r} |-> b[x]]
RECURSIVE BagSize(_)
BagSize(b) ==
    IF DOMAIN b = {} THEN 0
    ELSE LET r == CHOOSE x \in DOMAIN b : TRUE
         IN  b[r] + BagSize([x \in DOMAIN b \ {r} |-> b[x]])

\* fetchCountyStats without its cache lookup.
StatsHitRefetches(key) ==
    /\ key \in DOMAIN cache
    /\ BagSize(statsInFlight) < MaxStatsInFlight
    /\ statsInFlight' = BagAdd(statsInFlight,
            Req(key, "dblclick", key, <<Str(slice(key, 0, 2)),
                                        Str(slice(key, 2, 5))>>))
    /\ UNCHANGED <<cache, storedBy, statsFetched>>

\* fetchCountyStats up to its first await on the network: a cache hit
\* resolves at once, a miss leaves a request outstanding.
StatsHit(key) ==
    /\ key \in DOMAIN cache
    /\ UNCHANGED <<cache, statsInFlight, storedBy, statsFetched>>

StatsMiss(r) ==
    /\ r.key \notin DOMAIN cache
    /\ BagSize(statsInFlight) < MaxStatsInFlight
    /\ statsInFlight' = BagAdd(statsInFlight, r)
    /\ UNCHANGED <<cache, storedBy, statsFetched>>

\* The rest of fetchCountyStats when both responses arrived with a data row:
\* cache.set(key, result); return result.
StatsStored(r, result) ==
    /\ statsInFlight' = BagDel(statsInFlight, r)
    /\ cache' = Put(cache, r.key, result)
    /\ storedBy' = Put(storedBy, r.key, r.args)
    /\ statsFetched' = Put(statsFetched, r.key,
            IF r.key \in DOMAIN statsFetched THEN statsFetched[r.key] + 1
            ELSE 1)

\* A failure that leaves an empty record in the cache.
StatsThrownCaches(r) ==
    /\ statsInFlight' = BagDel(statsInFlight, r)
    /\ cache' = Put(cache, r.key, StatsRec(r.key, Null))
    /\ UNCHANGED <<storedBy, statsFetched>>

\* The rest of fetchCountyStats when a request failed or a response had no
\* data row: the error is logged and thrown again.
StatsThrown(r) ==
    /\ statsInFlight' = BagDel(statsInFlight, r)
    /\ UNCHANGED <<cache, storedBy, statsFetched>>

\* openCountyModalWithStats(county, state, stats)
openCountyModalWithStats(f, stats) ==
    /\ modalActive' = TRUE
    /\ modalView' = View("stats", f)
    /\ RecordVisit(StatsEntry(stats))

\* Double-click on a county path: openCountyModalWithACS(county, state).
DblClick(f) ==
    /\ f \in DomIds
    /\ lastOp.op = "openCountyModal" /\ lastOp.arg = f
    /\ LET stateFIPS == Str(slice(f, 0, 2))
           countyFIPS == Str(slice(f, 2, 5))
           key == statsKey(stateFIPS, countyFIPS)
       IN  IF key \in DOMAIN cache
           THEN /\ StatsHit(key)
                /\ openCountyModalWithStats(f, cache[key])
                /\ loadingOverlay' = FALSE
                /\ lastOp' = OpRec("openCountyModalWithACS", f,
                                    StatsEntry(cache[key]))
           ELSE /\ StatsMiss(Req(key, "dblclick", f,
                                 <<stateFIPS, countyFIPS>>))
                /\ loadingOverlay' = TRUE
                /\ lastOp' = Op("openCountyModalWithACS", f)
                /\ UNCHANGED <<modalVars, histVars>>
    /\ UNCHANGED <<resolvedStats, navVars, dataVars, driverVars>>

\* The awaited fetchCountyStats resolved: the try block continues.
AcsResolved(r, inc) ==
    /\ r \in DOMAIN statsInFlight /\ r.caller = "dblclick"
    /\ inc \in StatsIncomes
    /\ StatsStored(r, StatsRec(r.key, inc))
    /\ openCountyModalWithStats(r.county, StatsRec(r.key, inc))
    /\ loadingOverlay' = FALSE
    /\ lastOp' = OpRec("statsResolved", r.county,
                        StatsEntry(StatsRec(r.key, inc)))
    /\ UNCHANGED <<resolvedStats, navVars, dataVars, driverVars>>

\* The catch block showing the error instead of falling back.
AcsFailedNoFallback(r, k) ==
    /\ r \in DOMAIN statsInFlight /\ r.caller = "dblclick"
    /\ k \in FetchErrors
    /\ StatsThrown(r)
    /\ loadingOverlay' = FALSE
    /\ modalActive' = TRUE
    /\ modalView' = View("error", r.county)
    /\ lastOp' = OpErr("statsFailed", r.county, NoEntry, k)
    /\ UNCHANGED <<resolvedStats, navVars, dataVars, histVars, driverVars>>

\* The catch block without its hideLoading().
AcsFailedOverlayKept(r, k) ==
    /\ r \in DOMAIN statsInFlight /\ r.caller = "dblclick"
    /\ k \in FetchErrors
    /\ StatsThrown(r)
    /\ UNCHANGED loadingOverlay
    /\ openCountyModal(r.county)
    /\ lastOp' = OpErr("statsFailed", r.county,
                        openCountyModalEntry(r.county), k)
    /\ UNCHANGED <<resolvedStats, navVars, driverVars>>

\* The awaited fetchCountyStats threw error k: the catch block, which ends
\* in openCountyModal(county, state).
AcsFailed(r, k) ==
    /\ r \in DOMAIN statsInFlight /\ r.caller = "dblclick"
    /\ k \in FetchErrors
    /\ StatsThrown(r)
    /\ loadingOverlay' = FALSE
    /\ openCountyModal(r.county)
    /\ lastOp' = OpErr("statsFailed", r.county,
                        openCountyModalEntry(r.county), k)
    /\ UNCHANGED <<resolvedStats, navVars, driverVars>>

\* fetchCountyStats called through the application hooks with arguments in
\* either format.
HookStateArgs == { Num(1), Str(<<0, 1>>) }
HookCountyArgs == { Num(1), Str(<<0, 0, 1>>), Num(3) }

FetchCountyStatsCall(stateFIPS, countyFIPS) ==
    /\ stateFIPS \in HookStateArgs /\ countyFIPS \in HookCountyArgs
    /\ LET key == statsKey(stateFIPS, countyFIPS)
       IN  IF key \in DOMAIN cache
           THEN StatsHit(key) /\ resolvedStats' = cache[key]
           ELSE /\ StatsMiss(Req(key, "hook", None,
                                 <<stateFIPS, countyFIPS>>))
                /\ UNCHANGED resolvedStats
    /\ lastOp' = Op("fetchCountyStats", <<stateFIPS, countyFIPS>>)
    /\ UNCHANGED <<loadingOverlay, navVars, modalVars, dataVars, histVars,
                   driverVars>>

HookResolved(r, inc) ==
    /\ r \in DOMAIN statsInFlight /\ r.caller = "hook"
    /\ inc \in StatsIncomes
    /\ StatsStored(r, StatsRec(r.key, inc))
    /\ resolvedStats' = StatsRec(r.key, inc)
    /\ lastOp' = Op("statsResolved", r.args)
    /\ UNCHANGED <<loadingOverlay, navVars, modalVars, dataVars, histVars,
                   driverVars>>

HookFailed(r, k) ==
    /\ r \in DOMAIN statsInFlight /\ r.caller = "hook"
    /\ k \in FetchErrors
    /\ StatsThrown(r)
    /\ resolvedStats' = NoData
    /\ lastOp' = OpErr("statsFailed", r.args, NoEntry, k)
    /\ UNCHANGED <<loadingOverlay, navVars, modalVars, dataVars, histVars,
                   driverVars>>

(***************************************************************************)
(* Demographic aggregation: the two generational breakdowns.  A mapping is *)
(* a function from its keys to counts.  A percentage with one decimal is   *)
(* held in tenths of a percent (12.5 is 125); toFixed(1) is taken as       *)
(* rounding half up, which is what it does on every quotient whose second  *)
(* decimal is not a binary tie.                                            *)
(***************************************************************************)
\* Bound of the model: the largest count in an age band.
MaxAgeCount == 2

NoBreakdown == [none |-> TRUE]

RECURSIVE SumOver(_, _)
\* keys.reduce((t, k) => t + (Number(m[k]) || 0), 0)
SumOver(m, keys) ==
    IF keys = {} THEN 0
    ELSE LET k == CHOOSE x \in keys : TRUE
         IN  (IF k \in DOMAIN m THEN m[k] ELSE 0) + SumOver(m, keys \ {k})

\* Number(((v / total) * 100).toFixed(1)), in tenths of a percent
toFixed1(v, total) == (2000 * v + total) \div (2 * total)

Cohorts == {"Gen Alpha", "Gen Z", "Millennials", "Gen X", "Baby Boomers"}

\* The cohorts with the bands "20 years" and "21 years" left out of Gen Z.
CohortBandsShort ==
    [c \in Cohorts |->
        CASE c = "Gen Alpha" ->
                {"Under 5 years", "5 to 9 years", "10 to 14 years"}
          [] c = "Gen Z" ->
                {"15 to 17 years", "18 and 19 years", "22 to 24 years"}
          [] c = "Millennials" ->
                {"25 to 29 years", "30 to 34 years", "35 to 39 years"}
          [] c = "Gen X" ->
                {"40 to 44 years", "45 to 49 years", "50 to 54 years"}
          [] c = "Baby Boomers" ->
                {"55 to 59 years", "60 and 61 years", "62 to 64 years",
                 "65 and 66 years", "67 to 69 years", "70 to 74 years",
                 "75 to 79 years", "80 to 84 years", "85 years and over"}]

\* The age bands calculateGenerationalBreakdown adds up for each cohort.
CohortBands ==
    [c \in Cohorts |->
        CASE c = "Gen Alpha" ->
                {"Under 5 years", "5 to 9 years", "10 to 14 years"}
          [] c = "Gen Z" ->
                {"15 to 17 years", "18 and 19 years", "20 years", "21 years",
                 "22 to 24 years"}
          [] c = "Millennials" ->
                {"25 to 29 years", "30 to 34 years", "35 to 39 years"}
          [] c = "Gen X" ->
                {"40 to 44 years", "45 to 49 years", "50 to 54 years"}
          [] c = "Baby Boomers" ->
                {"55 to 59 years", "60 and 61 years", "62 to 64 years",
                 "65 and 66 years", "67 to 69 years", "70 to 74 years",
                 "75 to 79 years", "80 to 84 years", "85 years and over"}]

\* calculateGenerationalBreakdown(age) for an object age
calculateGenerationalBreakdown(age) ==
    LET total == SumOver(age, DOMAIN age)
    IN  IF total = 0
        THEN [c \in Cohorts |-> 0]
        ELSE [counts |-> [c \in Cohorts |-> SumOver(age, CohortBands[c])],
              percentages |->
                  [c \in Cohorts |->
                      toFixed1(SumOver(age, CohortBands[c]), total)],
              total |-> total]

\* The bins computeGenerationalBreakdown adds up for each of its cohorts.
GenZBins ==
    {"B01001_003E", "B01001_004E", "B01001_005E", "B01001_006E",
     "B01001_007E", "B01001_008E", "B01001_009E", "B01001_010E",
     "B01001_011E", "B01001_012E", "B01001_013E", "B01001_014E",
     "B01001_015E", "B01001_016E", "B01001_017E", "B01001_018E",
     "B01001_019E", "B01001_020E", "B01001_021E", "B01001_022E",
     "B01001_023E", "B01001_024E", "B01001_025E"}
MillennialBins ==
    {"B01001_026E", "B01001_027E", "B01001_028E", "B01001_029E",
     "B01001_030E", "B01001_031E", "B01001_044E", "B01001_045E",
     "B01001_046E", "B01001_047E", "B01001_048E", "B01001_049E"}
GenXBins ==
    {"B01001_032E", "B01001_033E", "B01001_034E", "B01001_035E",
     "B01001_050E", "B01001_051E", "B01001_052E", "B01001_053E"}
BoomerBins ==
    {"B01001_036E", "B01001_037E", "B01001_038E", "B01001_039E",
     "B01001_054E", "B01001_055E", "B01001_056E", "B01001_057E"}
SilentBins ==
    {"B01001_040E", "B01001_041E", "B01001_042E", "B01001_043E",
     "B01001_058E", "B01001_059E", "B01001_060E", "B01001_061E"}

\* computeGenerationalBreakdown(data) for an object data; a missing
\* B01001_001E gives Number(undefined), which is NaN and falsy like 0.
computeGenerationalBreakdown(data) ==
    LET total == IF "B01001_001E" \in DOMAIN data THEN data["B01001_001E"]
                 ELSE 0
    IN  IF total = 0 THEN NoBreakdown
        ELSE [genZ |-> toFixed1(SumOver(data, GenZBins), total),
              millennial |-> toFixed1(SumOver(data, MillennialBins), total),
              genX |-> toFixed1(SumOver(data, GenXBins), total),
              boomer |-> toFixed1(SumOver(data, BoomerBins), total),
              silent |-> toFixed1(SumOver(data, SilentBins), total)]

\* The inputs of the aggregation driver: age-band mappings with one band of
\* each cohort, the empty mapping, and ACS rows with one bin of each cohort
\* and their total.
AgeCounts == 0..MaxAgeCount
AgeBandsUsed == {"Under 5 years", "15 to 17 years", "25 to 29 years",
                 "40 to 44 years", "55 to 59 years"}
BinsUsed == {"B01001_003E", "B01001_026E", "B01001_032E", "B01001_036E",
             "B01001_040E"}
AgeInputs == [AgeBandsUsed -> AgeCounts] \cup { <<>> }
DataInputs ==
    { [k \in BinsUsed \cup {"B01001_001E"} |->
          IF k = "B01001_001E" THEN SumOver(b, BinsUsed) ELSE b[k]] :
      b \in [BinsUsed -> AgeCounts] }

\* The modal builds its generational list from record.age, or from the
\* statistics object when that has no age mapping.
ApplyCalculate ==
    /\ aggInput.kind = "age"
    /\ aggResult' = [fn |-> "calculateGenerationalBreakdown",
                     out |-> calculateGenerationalBreakdown(aggInput.map)]
    /\ lastOp' = Op("calculateGenerationalBreakdown", None)
    /\ UNCHANGED <<aggInput, revisits, demoVars, navVars, modalVars, dataVars,
                   histVars, acsVars>>

ApplyCompute ==
    /\ aggInput.kind = "data"
    /\ aggResult' = [fn |-> "computeGenerationalBreakdown",
                     out |-> computeGenerationalBreakdown(aggInput.map)]
    /\ lastOp' = Op("computeGenerationalBreakdown", None)
    /\ UNCHANGED <<aggInput, revisits, demoVars, navVars, modalVars, dataVars,
                   histVars, acsVars>>

(***************************************************************************)
(* Row parser: the cells of a Census API row and their numeric coercion.   *)
(* A JavaScript value is tagged with its type: a number, NaN, null,        *)
(* undefined, a string that holds a decimal number ("1234"), or a string   *)
(* that holds none ("N/A").  A row is a sequence of cells; JavaScript      *)
(* index i is position i + 1.                                              *)
(***************************************************************************)
JNum(n) == [t |-> "number", v |-> n]
JNaN == [t |-> "NaN"]
JNull == [t |-> "null"]
JUndefined == [t |-> "undefined"]
JNumStr(n) == [t |-> "numeric string", v |-> n]
JStr == [t |-> "string"]

\* row[i], undefined past the end
At(row, i) == IF i + 1 \in 1..Len(row) THEN row[i + 1] ELSE JUndefined

\* +x
ToNumber(x) ==
    CASE x.t = "number" -> x
      [] x.t = "numeric string" -> JNum(x.v)
      [] x.t = "null" -> JNum(0)
      [] OTHER -> JNaN

\* A value is falsy when it is 0, NaN, null or undefined.
Falsy(x) == x \in {JNum(0), JNaN, JNull, JUndefined}

\* x || y
Or(x, y) == IF Falsy(x) THEN y ELSE x

\* a + b on numbers
Plus(a, b) == IF a = JNaN \/ b = JNaN THEN JNaN ELSE JNum(a.v + b.v)

\* The 23 age bands in the order of ageVars; band k is male cell k plus
\* female cell k + 23.
AgeBands ==
    <<"Under 5 years", "5 to 9 years", "10 to 14 years", "15 to 17 years",
      "18 and 19 years", "20 years", "21 years", "22 to 24 years",
      "25 to 29 years", "30 to 34 years", "35 to 39 years",
      "40 to 44 years", "45 to 49 years", "50 to 54 years",
      "55 to 59 years", "60 and 61 years", "62 to 64 years",
      "65 and 66 years", "67 to 69 years", "70 to 74 years",
      "75 to 79 years", "80 to 84 years", "85 years and over">>

\* The least number of cells parseAgeData accepts.
MinAgeCells == 48

\* parseAgeData without its length test
parseAgeDataAnyLength(present, ageData) ==
    [b \in Range(AgeBands) |->
        LET k == CHOOSE i \in 1..Len(AgeBands) : AgeBands[i] = b
        IN  Plus(Or(ToNumber(At(ageData, k)), JNum(0)),
                 Or(ToNumber(At(ageData, k + 23)), JNum(0)))]

\* parseAgeData() on the row ageData, absent when the response had no row
parseAgeData(present, ageData) ==
    IF ~present \/ Len(ageData) < MinAgeCells THEN NoBreakdown
    ELSE [b \in Range(AgeBands) |->
            LET k == CHOOSE i \in 1..Len(AgeBands) : AgeBands[i] = b
            IN  Plus(Or(ToNumber(At(ageData, k)), JNum(0)),
                     Or(ToNumber(At(ageData, k + 23)), JNum(0)))]

\* Bound of the model: the largest factor of the cell values of a row.
MaxCellScale == 2

\* The age rows of the parser driver: of several lengths, cell i holding
\* i times a factor so that every position is told apart, and possibly one
\* cell that is null or not a number.
AgeRowLengths == {0, 24, 46, 47, 48, 49}
BadCells == {JNull, JStr}
AgeRows ==
    LET plain(len, c) == [i \in 1..len |-> JNumStr(c * (i - 1))]
    IN  { plain(len, c) : len \in AgeRowLengths, c \in 1..MaxCellScale }
        \cup { [plain(49, c) EXCEPT ![pos] = bad] :
                 c \in 1..MaxCellScale, pos \in {2, 25, 47}, bad \in BadCells }

ApplyParseAgeData ==
    /\ aggInput.kind = "ageRow"
    /\ aggResult' = [fn |-> "parseAgeData",
                     out |-> parseAgeData(aggInput.present, aggInput.row)]
    /\ lastOp' = Op("parseAgeData", None)
    /\ UNCHANGED <<aggInput, revisits, demoVars, navVars, modalVars, dataVars,
                   histVars, acsVars>>

\* a / b * 100 on numbers, kept as the exact quotient num / den
JInfinity == [t |-> "Infinity"]
Div100(a, b) ==
    IF a = JNaN \/ b = JNaN THEN JNaN
    ELSE IF b.v = 0 THEN (IF a.v = 0 THEN JNaN ELSE JInfinity)
    ELSE [t |-> "number", num |-> 100 * a.v, den |-> b.v]

\* c ? x : y
Cond(c, x, y) == IF Falsy(c) THEN y ELSE x

\* householdInsights with the three ratios under the guard of the first
householdInsightsOneGuard(household) ==
    LET totalHouseholds == Or(ToNumber(At(household, 0)), JNum(0))
        nonFamilyHouseholds == Or(ToNumber(At(household, 1)), JNum(0))
        singleHouseholds == Or(ToNumber(At(household, 2)), JNum(0))
        avgHouseholdSize == Or(ToNumber(At(household, 3)), JNull)
        totalHousingUnits == Or(ToNumber(At(household, 4)), JNum(0))
        midRiseUnits ==
            Plus(Plus(Or(ToNumber(At(household, 5)), JNum(0)),
                      Or(ToNumber(At(household, 6)), JNum(0))),
                 Or(ToNumber(At(household, 7)), JNum(0)))
    IN  [pctSingle |->
             Cond(totalHouseholds,
                  Div100(singleHouseholds, totalHouseholds), JNull),
         pctNonFamily |->
             Cond(totalHouseholds,
                  Div100(nonFamilyHouseholds, totalHouseholds), JNull),
         avgHouseholdSize |-> avgHouseholdSize,
         pctMultiUnitHousing |->
             Cond(totalHouseholds,
                  Div100(midRiseUnits, totalHousingUnits), JNull)]

\* The householdInsights of the record of fetchCensusData
householdInsights(household) ==
    LET totalHouseholds == Or(ToNumber(At(household, 0)), JNum(0))
        nonFamilyHouseholds == Or(ToNumber(At(household, 1)), JNum(0))
        singleHouseholds == Or(ToNumber(At(household, 2)), JNum(0))
        avgHouseholdSize == Or(ToNumber(At(household, 3)), JNull)
        totalHousingUnits == Or(ToNumber(At(household, 4)), JNum(0))
        midRiseUnits ==
            Plus(Plus(Or(ToNumber(At(household, 5)), JNum(0)),
                      Or(ToNumber(At(household, 6)), JNum(0))),
                 Or(ToNumber(At(household, 7)), JNum(0)))
    IN  [pctSingle |->
             Cond(totalHouseholds,
                  Div100(singleHouseholds, totalHouseholds), JNull),
         pctNonFamily |->
             Cond(totalHouseholds,
                  Div100(nonFamilyHouseholds, totalHouseholds), JNull),
         avgHouseholdSize |-> avgHouseholdSize,
         pctMultiUnitHousing |->
             Cond(totalHousingUnits,
                  Div100(midRiseUnits, totalHousingUnits), JNull)]

\* The record fetchCensusData returns for the four rows of the responses;
\* a response without a data row makes the first cell access throw, and the
\* catch returns null.
fetchCensusData(present, core, ethnicity, ageData, household) ==
    IF ~present THEN JNull
    ELSE
    [population |-> Or(ToNumber(At(core, 1)), JNum(0)),
     medianAge |-> Or(ToNumber(At(core, 2)), JNull),
     medianIncome |-> Or(ToNumber(At(core, 3)), JNull),
     income |-> Cond(ToNumber(At(core, 3)),
                     [medianHousehold |-> ToNumber(At(core, 3))], JNull),
     age |-> parseAgeData(TRUE, ageData),
     ethnicityBreakdown |->
         [total |-> ToNumber(At(ethnicity, 0)),
          white |-> ToNumber(At(ethnicity, 1)),
          black |-> ToNumber(At(ethnicity, 2)),
          native |-> ToNumber(At(ethnicity, 4)),
          asian |-> ToNumber(At(ethnicity, 6)),
          pacificIslander |-> ToNumber(At(ethnicity, 7)),
          hispanic |-> ToNumber(At(ethnicity, 11))],
     householdComposition |->
         [totalHouseholds |-> ToNumber(At(household, 0)),
          nonFamilyHouseholds |-> ToNumber(At(household, 1)),
          singlePersonHouseholds |-> ToNumber(At(household, 2)),
          averageHouseholdSize |-> ToNumber(At(household, 3)),
          totalHousingUnits |-> ToNumber(At(household, 4)),
          structures10to19Units |-> ToNumber(At(household, 5)),
          structures20to49Units |-> ToNumber(At(household, 6)),
          structures50PlusUnits |-> ToNumber(At(household, 7))],
     householdInsights |-> householdInsights(household)]

\* num(x) of census.js
num(x) == IF ToNumber(x) = JNaN THEN JNull ELSE ToNumber(x)

\* a + num(v), where a is a number and null adds as 0
AddNum(a, v) == Plus(a, ToNumber(num(v)))

\* sum(row.slice(from, to))
RECURSIVE sum(_, _, _)
sum(row, from, to) ==
    IF from >= to \/ from >= Len(row) THEN JNum(0)
    ELSE AddNum(sum(row, from, to - 1), At(row, to - 1))

\* (x).toFixed(1) of the quotient 100 * n / d, d positive, in tenths of a
\* percent; halves round away from zero
toFixed1Signed(n, d) ==
    IF n >= 0 THEN toFixed1(n, d) ELSE 0 - toFixed1(0 - n, d)

\* pct(n, d) of census.js, in tenths of a percent; null > 0 is false
pct(n, d) ==
    IF d.t = "number" /\ d.v > 0 THEN JNum(toFixed1Signed(n.v, d.v))
    ELSE JNum(0)

\* The labels of the income distribution of fetchCountyStats, in order
IncomeLabels ==
    <<"< $25,000", "$25,000 - $50,000", "$50,000 - $75,000",
      "$75,000 - $100,000", "> $100,000">>

\* The slices of the detail row that make up each range
IncomeSlices == <<<<2, 6>>, <<6, 10>>, <<10, 13>>, <<13, 15>>, <<15, 18>>>>

\* The result fetchCountyStats builds from the data rows of its responses
fetchCountyStats(subjRow, detRow) ==
    LET total == num(At(detRow, 1))
    IN  [medianIncome |-> num(At(subjRow, 1)),
         unemployment |-> num(At(subjRow, 2)),
         insuredPct |-> num(At(subjRow, 3)),
         incomeDist |->
             [i \in 1..Len(IncomeLabels) |->
                 [label |-> IncomeLabels[i],
                  pct |-> pct(sum(detRow, IncomeSlices[i][1],
                                  IncomeSlices[i][2]), total)]]]

\* The cells of the driver: decimal strings, null and a string that holds
\* no number.
Cells == { JNumStr(n) : n \in 0..MaxCellScale } \cup BadCells

\* A row of len cells, the first a name, cell i holding the decimal i
PlainRow(len) == [i \in 1..len |-> IF i = 1 THEN JStr ELSE JNumStr(i - 1)]

\* The rows of the four responses of fetchCensusData: one plain row of
\* each, and every choice of cells at the positions the record reads first.
CoreRows ==
    { [PlainRow(6) EXCEPT ![2] = a, ![3] = b, ![4] = c] :
        a \in Cells, b \in Cells, c \in Cells }
EthnicityRows ==
    { [[i \in 1..14 |-> JNumStr(i)] EXCEPT ![1] = a, ![2] = b, ![12] = c] :
        a \in Cells, b \in Cells, c \in Cells }
HouseholdRows ==
    { [[i \in 1..10 |-> JNumStr(i)] EXCEPT ![1] = a, ![3] = b, ![5] = c,
                                           ![6] = d] :
        a \in Cells, b \in Cells, c \in Cells, d \in BadCells \cup {JNumStr(1)} }
CensusInputs ==
    LET in(c, e, h) ==
            [kind |-> "census", present |-> TRUE, core |-> c,
             ethnicity |-> e, ageData |-> [i \in 1..49 |-> JNumStr(i - 1)],
             household |-> h]
        e0 == [i \in 1..14 |-> JNumStr(i)]
        h0 == [i \in 1..10 |-> JNumStr(i)]
    IN  { in(c, e0, h0) : c \in CoreRows }
        \cup { in(PlainRow(6), e, h0) : e \in EthnicityRows }
        \cup { in(PlainRow(6), e0, h) : h \in HouseholdRows }
        \cup { [in(PlainRow(6), e0, h0) EXCEPT !.present = FALSE] }

\* The rows of the two responses of fetchCountyStats
SubjectRows ==
    { [PlainRow(6) EXCEPT ![2] = a, ![3] = b] : a \in Cells, b \in Cells }

ApplyFetchCensusData ==
    /\ aggInput.kind = "census"
    /\ aggResult' = [fn |-> "fetchCensusData",
                     out |-> fetchCensusData(aggInput.present, aggInput.core,
                                             aggInput.ethnicity,
                                             aggInput.ageData,
                                             aggInput.household)]
    /\ lastOp' = Op("fetchCensusData", None)
    /\ UNCHANGED <<aggInput, revisits, demoVars, navVars, modalVars, dataVars,
                   histVars, acsVars>>

\* The detail rows: name, total, the sixteen brackets, state and county.
\* The total is a multiple of sixteen, negative, or no number; every
\* bracket holds 1 but one, in any of the five ranges, that holds any cell
\* or a negative count.
DetailTotals ==
    { JNumStr(16 * c) : c \in 0..MaxCellScale } \cup BadCells
        \cup {JNumStr(0 - 16)}
DetailRows ==
    { [[i \in 1..20 |-> IF i = 1 THEN JStr ELSE JNumStr(1)]
          EXCEPT ![2] = total, ![pos] = x] :
        total \in DetailTotals, pos \in {3, 7, 11, 14, 18},
        x \in Cells \cup {JNumStr(0 - 2)} }
StatsInputs ==
    LET in(subj, det) == [kind |-> "stats", subjRow |-> subj, detRow |-> det]
        d0 == [i \in 1..20 |-> IF i = 1 THEN JStr
                               ELSE IF i = 2 THEN JNumStr(16)
                               ELSE JNumStr(1)]
    IN  { in(subj, d0) : subj \in SubjectRows }
        \cup { in(PlainRow(6), det) : det \in DetailRows }

ApplyFetchCountyStats ==
    /\ aggInput.kind = "stats"
    /\ aggResult' = [fn |-> "fetchCountyStats",
                     out |-> fetchCountyStats(aggInput.subjRow,
                                              aggInput.detRow)]
    /\ lastOp' = Op("fetchCountyStats", None)
    /\ UNCHANGED <<aggInput, revisits, demoVars, navVars, modalVars, dataVars,
                   histVars, acsVars>>

(***************************************************************************)
(* Aggregation over values that may be null: the outcome of a call is the  *)
(* value it returns or the TypeError it throws on reading a property of    *)
(* null or undefined.                                                      *)
(***************************************************************************)
Thrown == [threw |-> "TypeError"]

Nullish(arg) == arg.kind = "nullish"

\* calculateGenerationalBreakdown(age): !age returns null
calculateGenerationalBreakdownCall(arg) ==
    IF Nullish(arg) THEN NoBreakdown
    ELSE calculateGenerationalBreakdown(arg.map)

\* computeGenerationalBreakdown(data): reads data.B01001_001E first
computeGenerationalBreakdownCall(arg) ==
    IF Nullish(arg) THEN Thrown
    ELSE computeGenerationalBreakdown(arg.map)

\* A string written by toFixed(1): a decimal in tenths, "NaN" or "Infinity"
JFixed(tenths) == [t |-> "string", tenths |-> tenths]
NaNText == [t |-> "string", text |-> "NaN"]
InfinityText == [t |-> "string", text |-> "Infinity"]

\* Number(data[k]) of a mapping of counts: NaN for a missing key
NumberOf(data, k) == IF k \in DOMAIN data THEN JNum(data[k]) ELSE JNaN

\* ((a / b) * 100).toFixed(1) on numbers, b not negative
Fixed100(a, b) ==
    IF a = JNaN \/ b = JNaN THEN NaNText
    ELSE IF b.v = 0 THEN (IF a.v = 0 THEN NaNText ELSE InfinityText)
    ELSE JFixed(toFixed1Signed(a.v, b.v))

\* The five categories computeEthnicityBreakdown adds up as "other"
OtherBins ==
    <<"B03002_007E", "B03002_008E", "B03002_009E", "B03002_010E",
      "B03002_011E">>

RECURSIVE PlusOver(_, _, _)
PlusOver(data, keys, n) ==
    IF n = 1 THEN NumberOf(data, keys[1])
    ELSE Plus(PlusOver(data, keys, n - 1), NumberOf(data, keys[n]))

\* computeEthnicityBreakdown with "other" short of its last category
computeEthnicityBreakdownFourOthers(data) ==
    LET total == NumberOf(data, "B03002_001E")
    IN  IF Falsy(total) THEN NoBreakdown
        ELSE [white |-> Fixed100(NumberOf(data, "B03002_003E"), total),
              black |-> Fixed100(NumberOf(data, "B03002_004E"), total),
              hispanic |-> Fixed100(NumberOf(data, "B03002_012E"), total),
              asian |-> Fixed100(NumberOf(data, "B03002_006E"), total),
              other |-> Fixed100(PlusOver(data, OtherBins, Len(OtherBins) - 1),
                                 total)]

\* computeEthnicityBreakdown(data) on a mapping of counts
computeEthnicityBreakdown(data) ==
    LET total == NumberOf(data, "B03002_001E")
    IN  IF Falsy(total) THEN NoBreakdown
        ELSE [white |-> Fixed100(NumberOf(data, "B03002_003E"), total),
              black |-> Fixed100(NumberOf(data, "B03002_004E"), total),
              hispanic |-> Fixed100(NumberOf(data, "B03002_012E"), total),
              asian |-> Fixed100(NumberOf(data, "B03002_006E"), total),
              other |-> Fixed100(PlusOver(data, OtherBins, Len(OtherBins)),
                                 total)]

\* computeEthnicityBreakdown(data): reads data.B03002_001E first
computeEthnicityBreakdownCall(arg) ==
    IF Nullish(arg) THEN Thrown
    ELSE computeEthnicityBreakdown(arg.map)

\* Bound of the model: the largest count of a varied ethnicity category.
MaxEthCount == 2

\* The mappings of the ethnicity driver: small counts under totals that
\* round up and down, the mapping of the documented example, a mapping
\* without its total and one without a count.
EthnicityKeys ==
    {"B03002_001E", "B03002_003E", "B03002_004E", "B03002_006E",
     "B03002_012E"} \cup Range(OtherBins)
EthnicityMap(total, white, black, hisp, asian, o7, o11) ==
    [k \in EthnicityKeys |->
        CASE k = "B03002_001E" -> total
          [] k = "B03002_003E" -> white
          [] k = "B03002_004E" -> black
          [] k = "B03002_012E" -> hisp
          [] k = "B03002_006E" -> asian
          [] k = "B03002_007E" -> o7
          [] k = "B03002_011E" -> o11
          [] OTHER -> 0]
Without(m, key) == [k \in DOMAIN m \ {key} |-> m[k]]
EthnicityExample == EthnicityMap(1000, 500, 120, 200, 80, 60, 40)
EthnicityInputs ==
    { EthnicityMap(total, w, 1, 1, 0, o7, o11) :
        total \in {0, 3, 7}, w \in 0..MaxEthCount, o7 \in 0..MaxEthCount,
        o11 \in 0..MaxEthCount }
    \cup { EthnicityExample, Without(EthnicityExample, "B03002_001E"),
           Without(EthnicityExample, "B03002_004E") }

NullishInputs == { [kind |-> "nullish", value |-> v] : v \in {JNull, JUndefined} }

ApplyComputeEthnicity ==
    /\ aggInput.kind \in {"ethnicity", "nullish"}
    /\ aggResult' = [fn |-> "computeEthnicityBreakdown",
                     out |-> computeEthnicityBreakdownCall(aggInput)]
    /\ lastOp' = Op("computeEthnicityBreakdown", None)
    /\ UNCHANGED <<aggInput, revisits, demoVars, navVars, modalVars, dataVars,
                   histVars, acsVars>>

\* The two generational breakdowns on a value that may be null
ApplyCalculateNullish ==
    /\ Nullish(aggInput)
    /\ aggResult' = [fn |-> "calculateGenerationalBreakdown",
                     out |-> calculateGenerationalBreakdownCall(aggInput)]
    /\ lastOp' = Op("calculateGenerationalBreakdown", None)
    /\ UNCHANGED <<aggInput, revisits, demoVars, navVars, modalVars, dataVars,
                   histVars, acsVars>>

ApplyComputeNullish ==
    /\ Nullish(aggInput)
    /\ aggResult' = [fn |-> "computeGenerationalBreakdown",
                     out |-> computeGenerationalBreakdownCall(aggInput)]
    /\ lastOp' = Op("computeGenerationalBreakdown", None)
    /\ UNCHANGED <<aggInput, revisits, demoVars, navVars, modalVars, dataVars,
                   histVars, acsVars>>

(***************************************************************************)
(* The modal content of the click path: the sections buildCountyStatsHTML  *)
(* writes for a record, each as the values it shows or as no section.      *)
(***************************************************************************)
NoSection == [section |-> "none"]

\* x is null, undefined or the null of a breakdown
Absent(x) == x \in {JNull, JUndefined, NoBreakdown}

\* data.income?.medianHousehold
MedianHousehold(data) ==
    IF Absent(data.income) THEN JUndefined ELSE data.income.medianHousehold

\* Math.round((below / length) * 100), length positive
RoundPercent(below, length) == (200 * below + length) \div (2 * length)

\* The incomes the percentile compares with: those present and above 0
allCountyIncomes(all) ==
    SelectSeq(all, LAMBDA d :
        ~Falsy(MedianHousehold(d)) /\ MedianHousehold(d).v > 0)

\* countyPercentile counting the incomes at or below the value
countyPercentileAtOrBelow(data, all) ==
    LET medianIncome == Or(MedianHousehold(data), JNull)
        incomes == allCountyIncomes(all)
        below == SelectSeq(incomes,
                     LAMBDA d : MedianHousehold(d).v <= medianIncome.v)
    IN  IF ~Falsy(medianIncome) /\ Len(incomes) > 0
        THEN JNum(RoundPercent(Len(below), Len(incomes)))
        ELSE JNull

\* countyPercentile of buildCountyStatsHTML
countyPercentile(data, all) ==
    LET medianIncome == Or(MedianHousehold(data), JNull)
        incomes == allCountyIncomes(all)
        below == SelectSeq(incomes,
                     LAMBDA d : MedianHousehold(d).v < medianIncome.v)
    IN  IF ~Falsy(medianIncome) /\ Len(incomes) > 0
        THEN JNum(RoundPercent(Len(below), Len(incomes)))
        ELSE JNull

\* The counts of an age mapping, as calculateGenerationalBreakdown reads
\* them: Number(age[k]) || 0
AgeNumbers(age) ==
    [b \in DOMAIN age |->
        IF Falsy(ToNumber(age[b])) THEN 0 ELSE ToNumber(age[b]).v]

\* The generational list of buildCountyStatsHTML
generationsSection(data) ==
    IF Absent(data.age) THEN NoSection
    ELSE LET generationBreakdown ==
                 calculateGenerationalBreakdown(AgeNumbers(data.age))
         IN  IF "percentages" \in DOMAIN generationBreakdown
             THEN generationBreakdown.percentages
             ELSE NoSection

\* The brackets buildCountyStatsHTML lists for a record of the local
\* dataset, with their labels, in order
BracketKeys ==
    <<"under25k", "25k-50k", "50k-75k", "75k-100k", "100k-150k", "150k+">>
BracketLabels ==
    <<"Under $25,000", "$25,000 - $50,000", "$50,000 - $75,000",
      "$75,000 - $100,000", "$100,000 - $150,000", "$150,000+">>

\* The income distribution of buildCountyStatsHTML
incomeSection(data) ==
    IF Absent(data.income) \/ "brackets" \notin DOMAIN data.income
    THEN NoSection
    ELSE [i \in 1..Len(BracketKeys) |->
             [label |-> BracketLabels[i],
              pct |-> IF BracketKeys[i] \in DOMAIN data.income.brackets
                      THEN Or(data.income.brackets[BracketKeys[i]], JNum(0))
                      ELSE JNum(0)]]

\* The ethnicity list of buildCountyStatsHTML
ethnicitySection(data) ==
    LET ethnicity == data.ethnicityBreakdown
    IN  IF Absent(ethnicity) THEN NoSection
        ELSE [white |-> Fixed100(ethnicity.white, ethnicity.total),
              black |-> Fixed100(ethnicity.black, ethnicity.total),
              native |-> Fixed100(ethnicity.native, ethnicity.total),
              asian |-> Fixed100(ethnicity.asian, ethnicity.total),
              pacificIslander |->
                  Fixed100(ethnicity.pacificIslander, ethnicity.total),
              hispanic |-> Fixed100(ethnicity.hispanic, ethnicity.total)]

\* x?.toFixed(1) ?? "–" of a quotient of householdInsights
FixedOrDash(x) ==
    IF x = JNull THEN [t |-> "string", text |-> "-"]
    ELSE IF x = JNaN THEN NaNText
    ELSE IF x = JInfinity THEN InfinityText
    ELSE JFixed(toFixed1Signed(x.num \div 100, x.den))

\* The household list of buildCountyStatsHTML
householdSection(data) ==
    IF Absent(data.householdInsights) THEN NoSection
    ELSE [pctSingle |-> FixedOrDash(data.householdInsights.pctSingle),
          pctNonFamily |-> FixedOrDash(data.householdInsights.pctNonFamily),
          pctMultiUnitHousing |->
              FixedOrDash(data.householdInsights.pctMultiUnitHousing)]

\* buildCountyStatsHTML(county, state, data), with the records of
\* demographicsData it reads as a parameter
buildCountyStatsHTML(data, all) ==
    [countyPercentile |-> countyPercentile(data, all),
     generations |-> generationsSection(data),
     incomeDistribution |-> incomeSection(data),
     ethnicity |-> ethnicitySection(data),
     household |-> householdSection(data)]

\* Records of the local dataset: a median income with or without the six
\* brackets, an age mapping, ethnicity counts.
LocalIncomeValues == {JNum(0), JNum(20000), JNum(60000), JNum(70000)}
LocalBrackets ==
    [k \in Range(BracketKeys) |->
        CASE k = "under25k" -> JNum(20)
          [] k = "25k-50k" -> JNum(25)
          [] k = "150k+" -> JNum(0)
          [] OTHER -> JNum(15)]
LocalIncomes ==
    {JNull} \cup { [medianHousehold |-> v] : v \in LocalIncomeValues }
        \cup { [medianHousehold |-> v, brackets |-> LocalBrackets] :
                 v \in LocalIncomeValues }
LocalAges ==
    {JUndefined}
        \cup { [b \in AgeBandsUsed |-> JNum(IF b = "Under 5 years" THEN c
                                          ELSE 1)] : c \in 0..MaxCellScale }
LocalEthnicities ==
    {JUndefined}
        \cup { [total |-> JNum(total), white |-> JNum(w), black |-> JNum(1),
                native |-> JNum(0), asian |-> JNum(0),
                pacificIslander |-> JNum(0), hispanic |-> JNum(1)] :
                 total \in {0, 3, 7}, w \in 0..MaxCellScale }
IncomeRecord(v) == [income |-> [medianHousehold |-> v]]
ComparisonSets ==
    { <<>>,
      <<IncomeRecord(JNum(20000)), IncomeRecord(JNum(40000)),
        IncomeRecord(JNum(60000)), IncomeRecord(JNum(80000)),
        IncomeRecord(JNum(100000))>>,
      <<IncomeRecord(JNum(60000)), [income |-> JNull],
        IncomeRecord(JNum(0)), IncomeRecord(JNum(20000)),
        IncomeRecord(JNum(40000))>>,
      <<IncomeRecord(JNum(0)), [income |-> JNull]>> }
LocalInputs ==
    { [kind |-> "local",
       data |-> [income |-> inc, age |-> age, ethnicityBreakdown |-> eth,
                 householdInsights |-> JUndefined],
       all |-> all] :
        inc \in LocalIncomes, age \in LocalAges, eth \in LocalEthnicities,
        all \in ComparisonSets }

\* The records demographicsData holds when a fetched record is shown
FetchedComparison ==
    <<IncomeRecord(JNum(1)), IncomeRecord(JNum(2)), IncomeRecord(JNum(3))>>

\* openCountyModal shows a record of the local dataset, or the record that
\* fetchCensusData has just returned.
ApplyBuildCountyStatsHTML ==
    /\ \/ /\ aggInput.kind = "local"
          /\ aggResult' = [fn |-> "buildCountyStatsHTML",
                           data |-> aggInput.data,
                           out |-> buildCountyStatsHTML(aggInput.data,
                                                        aggInput.all)]
       \/ /\ aggResult.fn = "fetchCensusData"
          /\ aggResult.out # JNull
          /\ aggResult' = [fn |-> "buildCountyStatsHTML",
                           data |-> aggResult.out,
                           out |-> buildCountyStatsHTML(aggResult.out,
                                                        FetchedComparison)]
    /\ lastOp' = Op("buildCountyStatsHTML", None)
    /\ UNCHANGED <<aggInput, revisits, demoVars, navVars, modalVars, dataVars,
                   histVars, acsVars>>

\* The variables of the ethnicity request, in the order of the row
ethnicityVars ==
    <<"B03002_001E", "B03002_002E", "B03002_003E", "B03002_004E",
      "B03002_005E", "B03002_006E", "B03002_007E", "B03002_008E",
      "B03002_009E", "B03002_010E", "B03002_011E", "B03002_012E">>

\* The cell of a row that answers the variable name
CellOf(row, names, name) ==
    row[CHOOSE i \in 1..Len(names) : names[i] = name]

\* The variable computeEthnicityBreakdown reads for each category
EthnicityVariable ==
    [white |-> "B03002_003E", black |-> "B03002_004E",
     asian |-> "B03002_006E", hispanic |-> "B03002_012E"]

\* The record of a fetch goes to the breakdown with the age mapping the
\* parser returned: calculateGenerationalBreakdown(data.age).
ApplyCalculateParsed ==
    /\ aggResult.fn = "parseAgeData"
    /\ aggResult.out # NoBreakdown
    /\ aggResult' = [fn |-> "calculateGenerationalBreakdown",
                     age |-> aggResult.out,
                     out |-> calculateGenerationalBreakdown(
                                 AgeNumbers(aggResult.out))]
    /\ lastOp' = Op("calculateGenerationalBreakdown", None)
    /\ UNCHANGED <<aggInput, revisits, demoVars, navVars, modalVars, dataVars,
                   histVars, acsVars>>

(***************************************************************************)
(* Demo tour: runDemo is an async function that drives the application     *)
(* through window.app and sleeps between its steps; stopDemo clears the    *)
(* flag demoRunning that a tour reads when a sleep has ended.  A tour is   *)
(* held with the await it is suspended at.  The modal the tour opened has  *)
(* the Income Distribution header, which the tour clicks twice; the        *)
(* expanded class of the modal content is not part of modalView.           *)
(***************************************************************************)
\* Bound of the model: runDemo calls that get past the demoRunning test.
MaxTours == 2

\* The state and the county the tour looks up ("06" and "06037" on the real
\* map): the first state of the geography and its first county.
ca == allStates[1]
la == CHOOSE f \in CountyIds :
          /\ slice(f, 0, 2) = ca
          /\ \A g \in CountyIds : slice(g, 0, 2) = ca => f[5] <= g[5]

\* The awaits of runDemo that are followed by "if (!demoRunning) return"
CheckedSleeps ==
    {"sleep 700", "sleep 1100", "sleep 900", "sleep 450", "sleep 600",
     "sleep 300"}
\* The last sleep, followed by the button label and the finally block
LastSleep == "final sleep 700"

Tour(pc) == [pc |-> pc]
TourOp(o, i) == [op |-> o, arg |-> None, entry |-> NoEntry, tour |-> i]

\* stopDemo(reason)
stopDemo == demoRunning' = FALSE

\* Click on #demo-btn: runDemo up to its first await.
RunDemo ==
    /\ ~demoRunning
    /\ Len(tours) < MaxTours
    /\ demoRunning' = TRUE
    /\ zoomOut
    /\ tours' = Append(tours, Tour("sleep 700"))
    /\ lastOp' = TourOp("runDemo", Len(tours) + 1)
    /\ UNCHANGED <<modalVars, dataVars, histVars, acsVars, revisits, aggVars>>

\* Click on #demo-skip, or the wheel / mousedown / Escape listener of
\* onAnyUserInteractionCancel.
StopDemo ==
    /\ demoRunning
    /\ stopDemo
    /\ lastOp' = TourOp("stopDemo", 0)
    /\ UNCHANGED <<tours, navVars, modalVars, dataVars, histVars, acsVars,
                   revisits, aggVars>>

\* A sleep of tour i has ended: the test of demoRunning, then the steps up
\* to the next await; a return inside try runs the finally block.
TourWake(i) ==
    /\ i \in 1..Len(tours)
    /\ tours[i].pc \in CheckedSleeps \cup {LastSleep}
    /\ LET pc == tours[i].pc
           to(next) == tours' = [tours EXCEPT ![i] = Tour(next)]
           stateFIPS == Str(ca)
           countyFIPS == Str(slice(la, 2, 5))
           key == statsKey(stateFIPS, countyFIPS)
       IN  IF pc \in CheckedSleeps /\ ~demoRunning
           THEN /\ stopDemo
                /\ to("done")
                /\ UNCHANGED <<navVars, modalVars, dataVars, histVars,
                               acsVars>>
           ELSE CASE pc = "sleep 700" ->
                    /\ zoomToState(ca)
                    /\ to("sleep 1100")
                    /\ UNCHANGED <<demoRunning, modalVars, dataVars, histVars,
                                   acsVars>>
             [] pc = "sleep 1100" ->
                    IF key \in DOMAIN cache
                    THEN /\ StatsHit(key)
                         /\ openCountyModalWithStats(la, cache[key])
                         /\ to("sleep 900")
                         /\ UNCHANGED <<demoRunning, navVars, dataVars,
                                        loadingOverlay, resolvedStats>>
                    ELSE /\ StatsMiss(Req(key, "tour", la,
                                          <<stateFIPS, countyFIPS>>))
                         /\ to("await fetchCountyStats")
                         /\ UNCHANGED <<demoRunning, navVars, modalVars,
                                        dataVars, histVars, loadingOverlay,
                                        resolvedStats>>
             [] pc = "sleep 900" ->
                    /\ to("sleep 450")
                    /\ UNCHANGED <<demoRunning, navVars, modalVars, dataVars,
                                   histVars, acsVars>>
             [] pc = "sleep 450" ->
                    /\ svgTransition' = None
                    /\ to("sleep 600")
                    /\ UNCHANGED <<demoRunning, currentState, inactive,
                                   gCounties, modalVars, dataVars, histVars,
                                   acsVars>>
             [] pc = "sleep 600" ->
                    /\ modalActive' = FALSE
                    /\ to("sleep 300")
                    /\ UNCHANGED <<demoRunning, modalView, navVars, dataVars,
                                   histVars, acsVars>>
             [] pc = "sleep 300" ->
                    /\ zoomOut
                    /\ to(LastSleep)
                    /\ UNCHANGED <<demoRunning, modalVars, dataVars, histVars,
                                   acsVars>>
             [] pc = LastSleep ->
                    /\ stopDemo
                    /\ to("done")
                    /\ UNCHANGED <<navVars, modalVars, dataVars, histVars,
                                   acsVars>>
    /\ lastOp' = TourOp("tourStep", i)
    /\ UNCHANGED <<revisits, aggVars>>

\* The fetchCountyStats a tour awaits resolved: the modal is opened with the
\* statistics, then sleep(900).
TourStatsResolved(i, r, inc) ==
    /\ i \in 1..Len(tours) /\ tours[i].pc = "await fetchCountyStats"
    /\ r \in DOMAIN statsInFlight /\ r.caller = "tour"
    /\ inc \in StatsIncomes
    /\ StatsStored(r, StatsRec(r.key, inc))
    /\ openCountyModalWithStats(la, StatsRec(r.key, inc))
    /\ tours' = [tours EXCEPT ![i] = Tour("sleep 900")]
    /\ lastOp' = TourOp("tourStats", i)
    /\ UNCHANGED <<demoRunning, navVars, dataVars, loadingOverlay,
                   resolvedStats, revisits, aggVars>>

\* The fetchCountyStats a tour awaits threw: the inner catch opens the
\* county through openCountyModal, then sleep(900).
TourStatsFailed(i, r, k) ==
    /\ i \in 1..Len(tours) /\ tours[i].pc = "await fetchCountyStats"
    /\ r \in DOMAIN statsInFlight /\ r.caller = "tour"
    /\ k \in FetchErrors
    /\ StatsThrown(r)
    /\ openCountyModal(la)
    /\ tours' = [tours EXCEPT ![i] = Tour("sleep 900")]
    /\ lastOp' = TourOp("tourStats", i)
    /\ UNCHANGED <<demoRunning, navVars, loadingOverlay, resolvedStats,
                   revisits, aggVars>>

(***************************************************************************)
(* History driver: recordCountyHistory and the pin buttons on their own,   *)
(* over enough units to fill the history.  Units are interchangeable, so   *)
(* first visits are made in numbering order.  A repeat visit finds the     *)
(* unit's record changed and picks the most recent unit, the one behind    *)
(* it, the oldest one still in the history, or the oldest one seen (which  *)
(* has been evicted once more units were seen than the history holds).     *)
(***************************************************************************)
HistFips(n) == CountyId(<<0, 1>>, n)
HistRecs == { Rec(200, 30, 50) }
RevisitPositions == { 1, 2, Len(countyHistory), Len(seen) } \cap (1..Len(seen))

VisitNew ==
    /\ Len(seen) < HistUnits
    /\ LET e == Entry(HistFips(Len(seen) + 1), Rec(100, 30, 50))
       IN  /\ RecordVisit(e)
           /\ lastOp' = OpRec("recordVisit", e.fips, e)
    /\ UNCHANGED <<navVars, modalVars, dataVars, driverVars, acsVars>>

Revisit(k, d) ==
    /\ revisits < HistMaxRevisits
    /\ k \in RevisitPositions
    /\ d \in HistRecs
    /\ RecordVisit(Entry(seen[k], d))
    /\ revisits' = revisits + 1
    /\ lastOp' = OpRec("recordVisit", seen[k], Entry(seen[k], d))
    /\ UNCHANGED <<navVars, modalVars, dataVars, acsVars, aggVars, demoVars>>

(***************************************************************************)
(* Specifications                                                          *)
(***************************************************************************)
\* The state after the page has loaded, but for the aggregation driver.
InitApp ==
    /\ currentState = None
    /\ inactive = {}
    /\ svgTransition = None
    /\ gCounties = <<>>
    /\ modalActive = FALSE
    /\ modalView = View("none", None)
    /\ demographicsData = LocalData
    /\ inFlight = [f \in CountyIds |-> 0]
    /\ countyHistory = <<>>
    /\ pinnedBaselineFips = None
    /\ historyPanel = <<>>
    /\ seen = <<>>
    /\ revisits = 0
    /\ cache = <<>>
    /\ statsInFlight = <<>>
    /\ loadingOverlay = FALSE
    /\ resolvedStats = NoData
    /\ storedBy = <<>>
    /\ statsFetched = <<>>
    /\ demoRunning = FALSE
    /\ tours = <<>>
    /\ lastOp = Op("init", None)

Init ==
    /\ InitApp
    /\ aggInput = [kind |-> "none"]
    /\ aggResult = [fn |-> "none"]

Next ==
    \/ \E s \in StateIds : ZoomToState(s)
    \/ ZoomOut
    \/ RevealCounties
    \/ RemoveCounties
    \/ Escape
    \/ \E f \in CountyIds : OpenCountyModal(f)
    \/ \E f \in CountyIds : \E d \in FetchResults : FetchResolved(f, d)
    \/ \E f \in CountyIds : \E k \in FetchErrors : FetchFailed(f, k)
    \/ CloseModal
    \/ \E i \in 1..HistoryLimit : PinClick(i)

Spec == Init /\ [][Next]_vars

NextHistory ==
    \/ VisitNew
    \/ \E k \in 1..HistUnits : \E d \in HistRecs : Revisit(k, d)
    \/ \E i \in 1..HistoryLimit : PinClick(i)

SpecHistory == Init /\ [][NextHistory]_vars

\* The double-click path together with the click path, the modal and the pin
\* buttons, for a user who zooms into one state and clicks and double-clicks
\* its revealed counties.
NextACS ==
    \/ \E s \in StateIds : currentState = None /\ ZoomToState(s)
    \/ RevealCounties
    \/ \E f \in DomIds : OpenCountyModal(f)
    \/ \E f \in CountyIds : \E d \in FetchResults : FetchResolved(f, d)
    \/ \E f \in CountyIds : \E k \in FetchErrors : FetchFailed(f, k)
    \/ \E f \in CountyIds : DblClick(f)
    \/ \E r \in DOMAIN statsInFlight : \E inc \in StatsIncomes :
          AcsResolved(r, inc)
    \/ \E r \in DOMAIN statsInFlight : \E k \in FetchErrors : AcsFailed(r, k)
    \/ CloseModal
    \/ \E i \in 1..HistoryLimit : PinClick(i)

SpecACS == Init /\ [][NextACS]_vars

\* The double-click path with every awaited fetchCountyStats settling: the
\* promise of a request that was sent is resolved or rejected in the end.
SettleAcs ==
    \E r \in DOMAIN statsInFlight :
        \/ \E inc \in StatsIncomes : AcsResolved(r, inc)
        \/ \E k \in FetchErrors : AcsFailed(r, k)

SpecACSFair == Init /\ [][NextACS]_vars /\ WF_vars(SettleAcs)

\* fetchCountyStats and its cache on their own.
NextCache ==
    \/ \E st \in HookStateArgs : \E co \in HookCountyArgs :
          FetchCountyStatsCall(st, co)
    \/ \E r \in DOMAIN statsInFlight : \E inc \in StatsIncomes :
          HookResolved(r, inc)
    \/ \E r \in DOMAIN statsInFlight : \E k \in FetchErrors :
          HookFailed(r, k)

SpecCache == Init /\ [][NextCache]_vars

\* The demo tour, with the transitions its zooms start.
NextDemo ==
    \/ RunDemo
    \/ StopDemo
    \/ \E i \in 1..Len(tours) : TourWake(i)
    \/ \E i \in 1..Len(tours) : \E r \in DOMAIN statsInFlight :
          \E inc \in StatsIncomes : TourStatsResolved(i, r, inc)
    \/ \E i \in 1..Len(tours) : \E r \in DOMAIN statsInFlight :
          \E k \in FetchErrors : TourStatsFailed(i, r, k)
    \/ RevealCounties
    \/ RemoveCounties

SpecDemo == Init /\ [][NextDemo]_vars

\* The generational breakdowns applied to bounded inputs.
InitBreakdown ==
    /\ InitApp
    /\ \/ \E m \in AgeInputs : aggInput = [kind |-> "age", map |-> m]
       \/ \E m \in DataInputs : aggInput = [kind |-> "data", map |-> m]
       \/ \E m \in EthnicityInputs :
            aggInput = [kind |-> "ethnicity", map |-> m]
       \/ aggInput \in NullishInputs
    /\ aggResult = [fn |-> "none"]

NextBreakdown ==
    \/ ApplyCalculate
    \/ ApplyCompute
    \/ ApplyComputeEthnicity
    \/ ApplyCalculateNullish
    \/ ApplyComputeNullish

SpecBreakdown == InitBreakdown /\ [][NextBreakdown]_vars

\* The row parser applied to bounded rows.
InitParse ==
    /\ InitApp
    /\ \/ \E row \in AgeRows :
            aggInput = [kind |-> "ageRow", present |-> TRUE, row |-> row]
       \/ aggInput = [kind |-> "ageRow", present |-> FALSE, row |-> <<>>]
       \/ aggInput \in CensusInputs
       \/ aggInput \in StatsInputs
       \/ aggInput \in LocalInputs
    /\ aggResult = [fn |-> "none"]

NextParse ==
    \/ ApplyParseAgeData
    \/ ApplyFetchCensusData
    \/ ApplyFetchCountyStats
    \/ ApplyBuildCountyStatsHTML
    \/ ApplyCalculateParsed

SpecParse == InitParse /\ [][NextParse]_vars

(***************************************************************************)
(* Properties                                                              *)
(***************************************************************************)
FipsSeq(h) == [i \in 1..Len(h) |-> h[i].fips]
FipsSet(h) == { h[i].fips : i \in 1..Len(h) }
PosOf(h, f) == CHOOSE i \in 1..Len(h) : h[i].fips = f
PanelEntries == [i \in 1..Len(historyPanel) |-> historyPanel[i].entry]

\* C1 (as stated): in every reachable state the visible county set is
\* non-empty exactly when a state is selected.
VisibleIffSelected ==
    (VisibleCounties # <<>>) <=> (currentState # None)

\* C1 (amended): whenever no zoom transition is pending, the visible county
\* set is non-empty exactly when a state is selected.
VisibleIffSelectedWhenSettled ==
    svgTransition = None => VisibleIffSelected

\* A reveal has just run: a state is selected and its counties are shown.
CountiesRevealed ==
    /\ lastOp.op = "revealCounties"
    /\ svgTransition = None
    /\ currentState # None
    /\ VisibleCounties # <<>>

\* C2: the history holds at most 10 entries and no identifier twice.
HistoryBoundedUnique ==
    /\ Len(countyHistory) <= HistoryLimit
    /\ \A i, j \in 1..Len(countyHistory) :
          i # j => countyHistory[i].fips # countyHistory[j].fips

\* More units were visited than fit, and the history is full.
HistoryFullAfterOverflow ==
    /\ Len(countyHistory) = HistoryLimit
    /\ Len(seen) > HistoryLimit

\* C3: after recordVisit(e) the entry at position 0 is e with e's values,
\* exactly one entry carries e's identifier, and the entries behind it are
\* previously present entries in their previous relative order.
RecordVisitFront ==
    [][lastOp'.entry # NoEntry =>
        LET e == lastOp'.entry
            h == countyHistory
            h2 == countyHistory'
        IN  /\ Len(h2) >= 1
            /\ h2[1] = e
            /\ Cardinality({ i \in 1..Len(h2) : h2[i].fips = e.fips }) = 1
            /\ \A i \in 2..Len(h2) : \E k \in 1..Len(h) : h[k] = h2[i]
            /\ \A i, j \in 2..Len(h2) :
                  i < j => PosOf(h, h2[i].fips) < PosOf(h, h2[j].fips)
            /\ Len(h2) < HistoryLimit =>
                  \A k \in 1..Len(h) :
                      h[k].fips # e.fips => \E i \in 2..Len(h2) : h2[i] = h[k]
    ]_vars

\* A unit was visited again with a different population: one entry for it,
\* in front, with the second value.
RevisitedWithNewValue ==
    /\ lastOp.op = "recordVisit"
    /\ revisits = 1
    /\ Len(countyHistory) >= 3
    /\ countyHistory[1].population = 200
    /\ countyHistory[1].fips # seen[Len(seen)]

\* C4: on a full history, recording an absent identifier drops exactly the
\* last entry and recording a present one drops nothing; the history is
\* always the 10 most recently visited distinct units.
EvictsLeastRecent ==
    /\ [](FipsSeq(countyHistory) = Slice0(seen, HistoryLimit))
    /\ [][(Len(countyHistory) = HistoryLimit /\ lastOp'.entry # NoEntry) =>
            LET f == lastOp'.entry.fips
            IN  IF f \in FipsSet(countyHistory)
                THEN FipsSet(countyHistory') = FipsSet(countyHistory)
                ELSE FipsSet(countyHistory') =
                        (FipsSet(countyHistory)
                            \ {countyHistory[HistoryLimit].fips}) \cup {f}
       ]_vars

\* The first unit visited has been pushed out by the eleventh.
OldestEvicted ==
    /\ Len(seen) = HistoryLimit + 1
    /\ Len(countyHistory) = HistoryLimit
    /\ HistFips(1) \notin FipsSet(countyHistory)
    /\ countyHistory[1].fips = HistFips(HistoryLimit + 1)

\* C5 (as stated): a fetch that completes while the modal shows another unit
\* is discarded: the modal and the history stay as they are.
StaleFetchDiscarded ==
    [][(lastOp'.op = "fetchResolved" /\ modalView.fips # lastOp'.arg) =>
          /\ modalView' = modalView
          /\ countyHistory' = countyHistory
    ]_vars

\* The pinned entry in front, the others behind it in history order.
PinnedFirst(h, pin) ==
    SelectSeq(h, LAMBDA c : c.fips = pin) \o SelectSeq(h, LAMBDA c : c.fips # pin)

\* C6: the rendered order is the pinned entry (if in history) followed by the
\* other entries in most-recent-first order.
RenderPinnedFirst ==
    /\ PanelEntries = PinnedFirst(countyHistory, pinnedBaselineFips)
    /\ \A i \in 1..Len(historyPanel) :
          historyPanel[i].isPinned <=>
              historyPanel[i].entry.fips = pinnedBaselineFips

\* History [A,B,C] = units 3,2,1; C pinned; D = unit 4 visited: [C,D,A,B].
PinnedThenNewVisit ==
    /\ FipsSeq(countyHistory) =
          <<HistFips(4), HistFips(3), HistFips(2), HistFips(1)>>
    /\ pinnedBaselineFips = HistFips(1)
    /\ FipsSeq(PanelEntries) =
          <<HistFips(1), HistFips(4), HistFips(3), HistFips(2)>>

\* C7 (as stated): once a reveal has run, the visible set is exactly the
\* counties of the revealed state, in geography order.
RevealShowsOnlySelectedState ==
    lastOp.op = "revealCounties" =>
        VisibleCounties = SelectIds(allCounties, lastOp.arg)

\* C8 (as stated): selectState(X) directly followed by selectState(X) ends in
\* Overview with no visible county, from every starting level.
SelectTwiceReturnsToOverview ==
    [][(/\ lastOp.op = "zoomToState"
        /\ lastOp'.op = "zoomToState"
        /\ lastOp'.arg = lastOp.arg) =>
            /\ currentState' = None
            /\ VisibleCounties' = <<>>
    ]_vars

\* C8 (amended): selectState(X) while X is selected ends in Overview with no
\* visible county; a pair selectState(X), selectState(X) ends in Overview
\* exactly when the first call selected X, that is, when the starting level
\* was not StateSelected(X), and ends in StateSelected(X) otherwise.
SelectTwiceToggles ==
    [][/\ (lastOp'.op = "zoomToState" /\ currentState = lastOp'.arg) =>
            /\ currentState' = None
            /\ VisibleCounties' = <<>>
            /\ svgTransition' = None
       /\ (/\ lastOp.op = "zoomToState"
           /\ lastOp'.op = "zoomToState"
           /\ lastOp'.arg = lastOp.arg) =>
            IF currentState = lastOp.arg
            THEN currentState' = None
            ELSE currentState' = lastOp.arg
    ]_vars

\* The selected state was clicked again while its counties were shown.
ToggledBackWithCounties ==
    /\ lastOp.op = "zoomToState"
    /\ currentState = None
    /\ Exiting # {}

\* C9: selectState(s) from Overview or from another selected state makes s
\* the selected state in that one step, and only the selected state is active.
SelectSwitchesDirectly ==
    /\ [](currentState # None => StateIds \ inactive = {currentState})
    /\ [][(lastOp'.op = "zoomToState" /\ currentState # lastOp'.arg) =>
            currentState' = lastOp'.arg
       ]_vars

\* State 02 was selected while state 01 was selected with its counties shown.
SwitchedFromOtherState ==
    /\ lastOp = Op("zoomToState", <<0, 2>>)
    /\ currentState = <<0, 2>>
    /\ CountyId(<<0, 1>>, 1) \in Range(VisibleCounties)

\* C10 (as stated): back or Escape from a selected state ends in Overview with
\* the counties removed.
BackOrEscapeLeavesState ==
    [][(lastOp'.op \in {"zoomOut", "escape"} /\ currentState # None) =>
          /\ currentState' = None
          /\ VisibleCounties' = <<>>
    ]_vars

\* C10 (amended): back, or Escape while the modal is closed, ends in Overview
\* with the counties removed; Escape while the modal is open only closes it.
BackOrEscapeWithoutModalLeavesState ==
    [][/\ (/\ currentState # None
           /\ \/ lastOp'.op = "zoomOut"
              \/ lastOp'.op = "escape" /\ ~modalActive) =>
            /\ currentState' = None
            /\ VisibleCounties' = <<>>
       /\ (lastOp'.op = "escape" /\ modalActive) =>
            /\ ~modalActive'
            /\ UNCHANGED navVars
    ]_vars

\* Escape was pressed on a selected state whose counties were shown.
EscapedToOverview ==
    /\ lastOp.op = "escape"
    /\ currentState = None
    /\ Exiting # {}
    /\ ~modalActive

\* C11: a pin click on the pinned identifier clears the baseline, a pin click
\* on another identifier makes it the baseline, and pin clicks exist only for
\* identifiers in the history; at most one card is pinned.
TogglePinSetsOrClears ==
    /\ [](Cardinality({ i \in 1..Len(historyPanel) :
                          historyPanel[i].isPinned }) <= 1)
    /\ [][lastOp'.op = "togglePin" =>
            /\ lastOp'.arg \in FipsSet(countyHistory)
            /\ IF pinnedBaselineFips = lastOp'.arg
               THEN pinnedBaselineFips' = None
               ELSE pinnedBaselineFips' = lastOp'.arg
       ]_vars

\* The pinned card's button was clicked: the baseline is none again.
Unpinned ==
    /\ lastOp.op = "togglePin"
    /\ pinnedBaselineFips = None
    /\ Len(countyHistory) >= 2

\* The entry the trends are measured against: the pinned entry when a pin is
\* set (none when that entry is not in the history), else the newest entry.
ResolvedBaseline ==
    IF pinnedBaselineFips # None
    THEN { countyHistory[k] : k \in { j \in 1..Len(countyHistory) :
                countyHistory[j].fips = pinnedBaselineFips } }
    ELSE { countyHistory[k] : k \in { j \in 1..Len(countyHistory) : j = 1 } }

\* C12: every card's trends are measured against the pinned entry when a pin
\* is set and against the newest entry otherwise; the baseline's own card has
\* no trends.
TrendsAgainstResolvedBaseline ==
    \A i \in 1..Len(historyPanel) :
        LET e == historyPanel[i].entry
            t == historyPanel[i].trends
        IN  IF ResolvedBaseline = {} \/ e \in ResolvedBaseline
            THEN t = NoTrends
            ELSE \E b \in ResolvedBaseline :
                    t = [population |-> trend(e.population, b.population),
                         medianAge |-> trend(e.medianAge, b.medianAge),
                         medianIncome |->
                             trend(e.medianIncome, b.medianIncome)]

\* An older entry is pinned and the newest card shows a trend against it.
TrendAgainstPinned ==
    /\ Len(countyHistory) >= 3
    /\ pinnedBaselineFips = countyHistory[3].fips
    /\ countyHistory[1].population = 200
    /\ historyPanel[2].entry = countyHistory[1]
    /\ historyPanel[2].trends # NoTrends
    /\ historyPanel[2].trends.population = "up"
    /\ historyPanel[1].trends = NoTrends

\* The direction one field must show.
FieldTrendOk(t, a, b) ==
    /\ t = "null" <=> (a = Null \/ b = Null)
    /\ t = "up" <=> (a # Null /\ b # Null /\ a > b)
    /\ t = "down" <=> (a # Null /\ b # Null /\ a < b)
    /\ t = "same" <=> (a # Null /\ b # Null /\ a = b)

\* C13: compareToBaseline gives each of the three fields its own direction,
\* null for a field with a missing value, and null as a whole when the history
\* is empty, no baseline resolves or current and baseline are the same entry.
CompareToBaselineFieldwise ==
    \A idx \in 0..(Len(countyHistory) + 1) :
        LET t == compareToBaseline(countyHistory, pinnedBaselineFips, idx)
            whole == \/ Len(countyHistory) = 0
                     \/ ResolvedBaseline = {}
                     \/ idx \notin 1..Len(countyHistory)
                     \/ countyHistory[idx] \in ResolvedBaseline
        IN  IF whole THEN t = NoTrends
            ELSE \E b \in ResolvedBaseline :
                    /\ t # NoTrends
                    /\ FieldTrendOk(t.population,
                            countyHistory[idx].population, b.population)
                    /\ FieldTrendOk(t.medianAge,
                            countyHistory[idx].medianAge, b.medianAge)
                    /\ FieldTrendOk(t.medianIncome,
                            countyHistory[idx].medianIncome, b.medianIncome)

\* One card shows a rise in one field and no direction for a missing one,
\* another card shows an unchanged field.
MixedTrends ==
    \E i, j \in 1..Len(historyPanel) :
        /\ historyPanel[i].trends # NoTrends
        /\ historyPanel[i].trends.population = "up"
        /\ historyPanel[i].trends.medianAge = "null"
        /\ historyPanel[j].trends # NoTrends
        /\ historyPanel[j].trends.population = "same"

RECURSIVE DigitsValue(_)
\* The number a digit string denotes.
DigitsValue(s) ==
    IF s = <<>> THEN 0 ELSE 10 * DigitsValue(SubSeq(s, 1, Len(s) - 1)) + s[Len(s)]

ArgValue(x) == IF x.type = "number" THEN x.val ELSE DigitsValue(x.val)

\* The five-digit identifier of the unit a pair of codes denotes.
UnitId(stateFIPS, countyFIPS) ==
    CountyId(<<ArgValue(stateFIPS) \div 10, ArgValue(stateFIPS) % 10>>,
             ArgValue(countyFIPS))

\* C14: codes of one unit in different formats give the same five-digit cache
\* key, and a request for a unit whose record is cached is a hit that
\* resolves to the cached record without a network request.
SameUnitSameCacheSlot ==
    [][lastOp'.op = "fetchCountyStats" =>
        LET u == UnitId(lastOp'.arg[1], lastOp'.arg[2])
        IN  /\ statsKey(lastOp'.arg[1], lastOp'.arg[2]) = u
            /\ u \in DOMAIN cache =>
                  /\ resolvedStats' = cache[u]
                  /\ statsInFlight' = statsInFlight
                  /\ cache' = cache
    ]_vars

\* A request with numeric codes was served the record that a request with
\* zero-padded strings had put in the cache.
NumericHitAfterPaddedFetch ==
    /\ lastOp.op = "fetchCountyStats"
    /\ lastOp.arg = <<Num(1), Num(1)>>
    /\ CountyId(<<0, 1>>, 1) \in DOMAIN cache
    /\ storedBy[CountyId(<<0, 1>>, 1)] = <<Str(<<0, 1>>), Str(<<0, 0, 1>>)>>
    /\ resolvedStats = cache[CountyId(<<0, 1>>, 1)]
    /\ resolvedStats.medianIncome = 80

\* A request of the click path, or of the double-click path, for unit u goes
\* to the network in this step.
ClickRequestStarts(u) == inFlight'[u] > inFlight[u]
StatsRequestStarts(u) ==
    \E r \in DOMAIN statsInFlight' :
        /\ r.key = u
        /\ r \notin DOMAIN statsInFlight \/ statsInFlight'[r] > statsInFlight[r]

\* A fetch for unit u has succeeded, on either path.
Fetched(u) ==
    \/ u \notin LocalFips /\ demographicsData[u] # NoData
    \/ u \in DOMAIN cache

\* C15 as stated: once a fetch for a unit has succeeded, no request for the
\* unit goes to the network any more, whichever path opens it.
ServedFromMemoryOnAnyPath ==
    [][\A u \in CountyIds :
          Fetched(u) => ~ClickRequestStarts(u) /\ ~StatsRequestStarts(u)
    ]_vars

\* C15, amended: once a fetch for a unit has succeeded on one open path, no
\* later request of that same path for the unit goes to the network; the
\* click path and the double-click path keep separate stores.
ServedFromMemoryOnSamePath ==
    [][\A u \in CountyIds :
          /\ demographicsData[u] # NoData => ~ClickRequestStarts(u)
          /\ u \in DOMAIN cache => ~StatsRequestStarts(u)
    ]_vars

\* A double-click was served from the cache, for a unit whose click record
\* had been fetched as well, with nothing outstanding.
ServedFromCache ==
    /\ lastOp.op = "openCountyModalWithACS"
    /\ lastOp.entry # NoEntry
    /\ lastOp.arg \notin LocalFips
    /\ demographicsData[lastOp.arg] # NoData
    /\ statsFetched[lastOp.arg] = 1
    /\ statsInFlight = <<>>
    /\ \A f \in CountyIds : inFlight[f] = 0

\* An open of a unit with no record in its path's store sends a request.
RetryFetches ==
    /\ (lastOp'.op = "openCountyModal"
            /\ demographicsData[lastOp'.arg] = NoData)
          => ClickRequestStarts(lastOp'.arg)
    /\ (lastOp'.op = "openCountyModalWithACS"
            /\ lastOp'.arg \notin DOMAIN cache)
          => StatsRequestStarts(lastOp'.arg)

\* C16 as stated: a failed fetch of either kind stores nothing, leaves the
\* history as it was, and a new open fetches again.
FailedFetchChangesNothing ==
    [][/\ lastOp'.op \in {"fetchFailed", "statsFailed"} =>
            /\ cache' = cache
            /\ demographicsData' = demographicsData
            /\ countyHistory' = countyHistory
       /\ RetryFetches
    ]_vars

\* C16, amended: a failed fetch of either kind stores nothing and a new open
\* fetches again; the history is unchanged on the click path, and on the
\* double-click path it changes only by the fallback to the click open, which
\* records the unit's local record when there is one.
FailedFetchStoresNothing ==
    [][/\ lastOp'.op \in {"fetchFailed", "statsFailed"} =>
            /\ cache' = cache
            /\ demographicsData' = demographicsData
            /\ countyHistory' =
                  IF lastOp'.op = "statsFailed"
                        /\ demographicsData[lastOp'.arg] # NoData
                  THEN recordCountyHistory(countyHistory,
                          Entry(lastOp'.arg, demographicsData[lastOp'.arg]))
                  ELSE countyHistory
       /\ RetryFetches
    ]_vars

\* A double-click fetch failed with an application error: nothing is cached
\* and the fallback has put the local record in front of another entry.
StatsFailedFellBack ==
    /\ lastOp.op = "statsFailed"
    /\ lastOp.error = "application"
    /\ lastOp.entry # NoEntry
    /\ cache = <<>>
    /\ Len(countyHistory) >= 2
    /\ countyHistory[1] = lastOp.entry

\* Number of history entries of unit u.
Count(h, u) == Cardinality({ i \in 1..Len(h) : h[i].fips = u })

\* C17: with two fetches of one unit outstanding at once, each successful
\* completion, in whichever order, leaves one record under the unit's key (the
\* one just returned) and exactly one history entry of the unit.
ConcurrentFetchesOneRecord ==
    /\ [](\A u \in CountyIds : Count(countyHistory, u) <= 1)
    /\ [][/\ lastOp'.op = "statsResolved" =>
               /\ lastOp'.arg \in DOMAIN cache'
               /\ StatsEntry(cache'[lastOp'.arg]) = lastOp'.entry
               /\ Count(countyHistory', lastOp'.arg) = 1
               /\ countyHistory'[1] = lastOp'.entry
          /\ lastOp'.op = "fetchResolved" =>
               /\ demographicsData'[lastOp'.arg] # NoData
               /\ Entry(lastOp'.arg, demographicsData'[lastOp'.arg])
                     = lastOp'.entry
               /\ Count(countyHistory', lastOp'.arg) = 1
               /\ countyHistory'[1] = lastOp'.entry
       ]_vars

\* Two statistics fetches of one unit were outstanding together and both
\* have written their result: one cached record, one history entry.
BothStatsFetchesCompleted ==
    /\ lastOp.op = "statsResolved"
    /\ lastOp.arg \in DOMAIN statsFetched
    /\ statsFetched[lastOp.arg] = 2
    /\ statsInFlight = <<>>
    /\ Count(countyHistory, lastOp.arg) = 1
    /\ cache[lastOp.arg].medianIncome = Null

\* C18: selecting a state and going back are possible whatever fetches are
\* outstanding, and a step that starts or completes a fetch changes neither
\* the selected level nor the county paths on screen.
NavigationIndependentOfFetches ==
    /\ [](\A s \in StateIds : ENABLED ZoomToState(s))
    /\ [](ENABLED ZoomOut)
    /\ [][lastOp'.op \in {"openCountyModal", "fetchResolved", "fetchFailed"}
            => UNCHANGED <<currentState, inactive, gCounties, svgTransition>>
       ]_vars

\* A state was selected while two fetches were outstanding.
ZoomedDuringFetches ==
    /\ lastOp.op = "zoomToState"
    /\ currentState = lastOp.arg
    /\ \E f \in CountyIds : inFlight[f] = MaxInFlight

\* The handlers that run a navigation transition.
NavOps == {"zoomToState", "zoomOut", "revealCounties", "removeCounties",
           "escape"}

\* What holds of every step whatever failed: the history changes only by a
\* recorded visit, the pin only by a pin click, a pin click leaves the
\* history alone and a recorded visit leaves the pin alone.
HistoryFrame ==
    /\ countyHistory' # countyHistory =>
          /\ lastOp'.entry # NoEntry
          /\ countyHistory' = recordCountyHistory(countyHistory, lastOp'.entry)
    /\ pinnedBaselineFips' # pinnedBaselineFips => lastOp'.op = "togglePin"
    /\ lastOp'.op = "togglePin" => countyHistory' = countyHistory
    /\ lastOp'.entry # NoEntry => pinnedBaselineFips' = pinnedBaselineFips

SumsToZero ==
    /\ aggInput.kind \in {"age", "data"}
    /\ SumOver(aggInput.map, DOMAIN aggInput.map) = 0

\* The five percentages of a result, wherever the result keeps them.
PercentagesOf(out) ==
    IF "percentages" \in DOMAIN out THEN out.percentages ELSE out

\* C20: for a mapping whose counts sum to 0 the generational breakdown
\* returns five cohort percentages, all of them 0.
ZeroTotalGivesZeroPercentages ==
    (aggResult.fn # "none" /\ SumsToZero) =>
        /\ Cardinality(DOMAIN PercentagesOf(aggResult.out)) = 5
        /\ \A c \in DOMAIN PercentagesOf(aggResult.out) :
              PercentagesOf(aggResult.out)[c] = 0

\* The number of variables requested for the age row (ageVars).
AgeVarCount == 47

\* C21: an age row with fewer cells than there are age variables parses to
\* null, and a row with all of them gives every band as the sum of its male
\* cell and its female cell.
ShortAgeRowUnavailable ==
    aggResult.fn = "parseAgeData" =>
        IF ~aggInput.present \/ Len(aggInput.row) < AgeVarCount
        THEN aggResult.out = NoBreakdown
        ELSE /\ DOMAIN aggResult.out = Range(AgeBands)
             /\ \A k \in 1..Len(AgeBands) :
                   aggResult.out[AgeBands[k]] =
                       Plus(Or(ToNumber(aggInput.row[k + 1]), JNum(0)),
                            Or(ToNumber(aggInput.row[k + 24]), JNum(0)))

\* C21 (as amended): an age row with fewer than 48 cells, the 47 age
\* variables and one geography cell, parses to null, never to a partly
\* filled mapping, and a row with at least 48 cells gives every band as the
\* sum of its male cell and its female cell.
AgeRowBelowThresholdUnavailable ==
    aggResult.fn = "parseAgeData" =>
        IF ~aggInput.present \/ Len(aggInput.row) < AgeVarCount + 1
        THEN aggResult.out = NoBreakdown
        ELSE /\ DOMAIN aggResult.out = Range(AgeBands)
             /\ \A k \in 1..Len(AgeBands) :
                   aggResult.out[AgeBands[k]] =
                       Plus(Or(ToNumber(aggInput.row[k + 1]), JNum(0)),
                            Or(ToNumber(aggInput.row[k + 24]), JNum(0)))

\* A full row with a null cell was parsed into the 23 bands.
FullAgeRowParsed ==
    /\ aggResult.fn = "parseAgeData"
    /\ Len(aggInput.row) = 49
    /\ JNull \in Range(aggInput.row)
    /\ aggResult.out /= NoBreakdown
    /\ aggResult.out["Under 5 years"].v > 0

\* The field a cell gives when a cell without a finite number gives null.
FieldOf(cell) == IF ToNumber(cell) = JNaN THEN JNull ELSE ToNumber(cell)

\* The numeric cells a record stores, with the field each is stored in.
StoredCells ==
    IF aggResult.fn = "fetchCountyStats"
    THEN { <<aggInput.subjRow[2], aggResult.out.medianIncome>>,
           <<aggInput.subjRow[3], aggResult.out.unemployment>>,
           <<aggInput.subjRow[4], aggResult.out.insuredPct>> }
    ELSE IF aggResult.fn = "fetchCensusData" /\ aggResult.out /= JNull
    THEN { <<aggInput.core[2], aggResult.out.population>>,
           <<aggInput.core[3], aggResult.out.medianAge>>,
           <<aggInput.core[4], aggResult.out.medianIncome>>,
           <<aggInput.ethnicity[1], aggResult.out.ethnicityBreakdown.total>>,
           <<aggInput.ethnicity[2], aggResult.out.ethnicityBreakdown.white>>,
           <<aggInput.ethnicity[12],
             aggResult.out.ethnicityBreakdown.hispanic>>,
           <<aggInput.household[1],
             aggResult.out.householdComposition.totalHouseholds>>,
           <<aggInput.household[3],
             aggResult.out.householdComposition.singlePersonHouseholds>>,
           <<aggInput.household[5],
             aggResult.out.householdComposition.totalHousingUnits>> }
    ELSE {}

\* C22: a cell of a fetched row that holds no finite number gives null for
\* its field, never NaN and never a 0 put in its place, and the record is
\* still produced.
NonFiniteCellGivesNull ==
    /\ aggResult.fn = "fetchCensusData" /\ aggInput.present
           => aggResult.out /= JNull
    /\ \A p \in StoredCells :
          /\ p[2] /= JNaN
          /\ ToNumber(p[1]) = JNaN => p[2] = JNull

\* C23: every aggregation function returns a value or null for every
\* input, null and undefined included; none throws.
AggregationNeverThrows ==
    aggResult.fn # "none" => aggResult.out # Thrown

\* The record shown has ethnicity counts whose total is zero or absent.
EthnicityTotalMissing(data) ==
    \/ Absent(data.ethnicityBreakdown)
    \/ data.ethnicityBreakdown.total \in {JNum(0), JNaN, JNull, JUndefined}

\* C24: when the total of the ethnicity counts is zero or absent no
\* ethnicity breakdown is produced and none is displayed as percentages.
NoEthnicityWithoutTotal ==
    /\ aggResult.fn = "buildCountyStatsHTML"
           /\ EthnicityTotalMissing(aggResult.data)
           => aggResult.out.ethnicity = NoSection
    /\ aggResult.fn = "computeEthnicityBreakdown"
           /\ aggInput.kind = "ethnicity"
           /\ NumberOf(aggInput.map, "B03002_001E") \in {JNum(0), JNaN}
           => aggResult.out = NoBreakdown

\* count / total * 100 rounded to one decimal, in tenths of a percent:
\* the nearest tenth, a half rounding up
IsRoundedShare(tenths, count, total) ==
    /\ 2 * (total * tenths - 1000 * count) <= total
    /\ 2 * (1000 * count - total * tenths) < total

\* The ethnicity counts are all present and their total is positive.
ValidEthnicityCounts ==
    /\ aggResult.fn = "computeEthnicityBreakdown"
    /\ aggInput.kind = "ethnicity"
    /\ DOMAIN aggInput.map = EthnicityKeys
    /\ aggInput.map["B03002_001E"] > 0

\* C25: for ethnicity counts with a positive total the breakdown gives
\* white, black, hispanic and asian as count / total * 100 rounded to one
\* decimal and other as the five remaining categories together over the
\* total; the documented example gives white 50.0 and other 10.0.
EthnicityShares ==
    ValidEthnicityCounts =>
        LET m == aggInput.map
            out == aggResult.out
            total == m["B03002_001E"]
        IN  /\ DOMAIN out = {"white", "black", "hispanic", "asian", "other"}
            /\ \A c \in DOMAIN out : "tenths" \in DOMAIN out[c]
            /\ IsRoundedShare(out.white.tenths, m["B03002_003E"], total)
            /\ IsRoundedShare(out.black.tenths, m["B03002_004E"], total)
            /\ IsRoundedShare(out.hispanic.tenths, m["B03002_012E"], total)
            /\ IsRoundedShare(out.asian.tenths, m["B03002_006E"], total)
            /\ IsRoundedShare(out.other.tenths,
                   m["B03002_007E"] + m["B03002_008E"] + m["B03002_009E"]
                       + m["B03002_010E"] + m["B03002_011E"], total)
            /\ (m = EthnicityExample =>
                    out.white.tenths = 500 /\ out.other.tenths = 100)

\* The breakdown of the documented example was computed, and one that
\* rounds.
EthnicityExampleComputed ==
    /\ ValidEthnicityCounts
    /\ \/ aggInput.map = EthnicityExample
       \/ /\ aggInput.map["B03002_001E"] = 7
          /\ aggInput.map["B03002_011E"] = 1
          /\ aggResult.out.other.tenths = 143

\* The income distribution a result presents, if it presents one.
PresentedIncomeDistribution ==
    IF aggResult.fn = "fetchCountyStats" THEN aggResult.out.incomeDist
    ELSE IF aggResult.fn = "buildCountyStatsHTML"
    THEN aggResult.out.incomeDistribution
    ELSE NoSection

\* C26: an income distribution that is presented consists of exactly the
\* five canonical ranges, from the API row and from the local dataset alike.
IncomeDistributionFiveRanges ==
    PresentedIncomeDistribution # NoSection =>
        /\ Len(PresentedIncomeDistribution) = Len(IncomeLabels)
        /\ \A i \in 1..Len(IncomeLabels) :
              PresentedIncomeDistribution[i].label
                  \in {IncomeLabels[i], BracketLabels[i]}

\* The value a bracket cell adds to its range: its number, 0 without one
FiniteValue(cell) == IF ToNumber(cell) = JNaN THEN 0 ELSE ToNumber(cell).v

RECURSIVE CellSum(_, _)
CellSum(row, positions) ==
    IF positions = {} THEN 0
    ELSE LET q == CHOOSE x \in positions : TRUE
         IN  FiniteValue(row[q]) + CellSum(row, positions \ {q})

\* The sum of the bracket cells of range i of a detail row
RangeSum(row, i) ==
    CellSum(row, (IncomeSlices[i][1] + 1)..IncomeSlices[i][2])

\* C27: each income range percentage is range sum / total * 100 rounded to
\* one decimal when the total is positive and 0 when the total is zero,
\* negative or null; it is never negative and never NaN.
IncomeRangePercentages ==
    aggResult.fn = "fetchCountyStats" =>
        \A i \in 1..Len(IncomeLabels) :
            LET total == num(aggInput.detRow[2])
                p == aggResult.out.incomeDist[i].pct
            IN  /\ p.t = "number"
                /\ p.v >= 0
                /\ IF total.t = "number" /\ total.v > 0
                   THEN IsRoundedShare(p.v, RangeSum(aggInput.detRow, i),
                                       total.v)
                   ELSE p.v = 0

\* The records the percentile of the record shown is taken against.
ComparedWith ==
    IF aggInput.kind = "local" THEN aggInput.all ELSE FetchedComparison

\* The positions of the comparison set: the records with an income above 0
ComparisonPositions ==
    { i \in 1..Len(ComparedWith) :
        /\ ~Absent(ComparedWith[i].income)
        /\ ComparedWith[i].income.medianHousehold.t = "number"
        /\ ComparedWith[i].income.medianHousehold.v > 0 }

\* The value whose percentile is taken: the median income of the record
PercentileValue ==
    IF Absent(aggResult.data.income) THEN JNull
    ELSE aggResult.data.income.medianHousehold

\* r is 100 * below / size rounded to the nearest integer
IsRoundedPercent(r, below, size) ==
    /\ 2 * (size * r - 100 * below) <= size
    /\ 2 * (100 * below - size * r) < size

\* The percentile shown is that of the value against the comparison set.
PercentileIsRank ==
    LET below == { i \in ComparisonPositions :
                     ComparedWith[i].income.medianHousehold.v
                         < PercentileValue.v }
    IN  /\ aggResult.out.countyPercentile.t = "number"
        /\ IsRoundedPercent(aggResult.out.countyPercentile.v,
                            Cardinality(below),
                            Cardinality(ComparisonPositions))

\* C28: the income percentile is round(100 * (comparison values strictly
\* below the value) / (size of the set)), and null when the set is empty
\* or the value is null.
PercentileOfValue ==
    aggResult.fn = "buildCountyStatsHTML" =>
        IF ComparisonPositions = {} \/ PercentileValue = JNull
        THEN aggResult.out.countyPercentile = JNull
        ELSE PercentileIsRank

\* C28 (as amended): the income percentile is round(100 * (comparison
\* values strictly below the value) / (size of the set)), and null when
\* the set is empty or the value is null or 0.
PercentileOfPositiveValue ==
    aggResult.fn = "buildCountyStatsHTML" =>
        IF ComparisonPositions = {} \/ PercentileValue \in {JNull, JNum(0)}
        THEN aggResult.out.countyPercentile = JNull
        ELSE PercentileIsRank

\* The percentile of 60000 against 20000, 40000, 60000, 80000 and 100000
\* was computed, and it is 40.
PercentileExampleComputed ==
    /\ aggResult.fn = "buildCountyStatsHTML"
    /\ PercentileValue = JNum(60000)
    /\ Cardinality(ComparisonPositions) = 5
    /\ aggResult.out.countyPercentile = JNum(40)

\* The count a household cell stands for: its number, 0 without one
HouseholdCount(i) == FiniteValue(aggInput.household[i + 1])

\* x is the quotient count / total * 100
IsRatio(x, count, total) ==
    /\ x \notin {JNull, JNaN, JInfinity}
    /\ x.t = "number"
    /\ x.den # 0
    /\ x.num * total = 100 * count * x.den

\* A household record was built by fetchCensusData.
HouseholdInsightsBuilt ==
    /\ aggResult.fn = "fetchCensusData"
    /\ aggResult.out # JNull

\* C29: the household insights guard each ratio on its own denominator:
\* without households pctSingle and pctNonFamily are null, without housing
\* units pctMultiUnitHousing is null, each is the quotient otherwise, and
\* none is NaN or Infinity.
HouseholdRatiosGuardedSeparately ==
    HouseholdInsightsBuilt =>
        LET hi == aggResult.out.householdInsights
        IN  /\ IF HouseholdCount(0) = 0
               THEN hi.pctSingle = JNull /\ hi.pctNonFamily = JNull
               ELSE /\ IsRatio(hi.pctSingle, HouseholdCount(2),
                               HouseholdCount(0))
                    /\ IsRatio(hi.pctNonFamily, HouseholdCount(1),
                               HouseholdCount(0))
            /\ IF HouseholdCount(4) = 0
               THEN hi.pctMultiUnitHousing = JNull
               ELSE IsRatio(hi.pctMultiUnitHousing,
                            HouseholdCount(5) + HouseholdCount(6)
                                + HouseholdCount(7),
                            HouseholdCount(4))
            /\ \A f \in {"pctSingle", "pctNonFamily", "pctMultiUnitHousing"} :
                  hi[f] \notin {JNaN, JInfinity}

\* A record without households and with housing units: the first two
\* ratios are null and the third is computed.
NoHouseholdsButHousingUnits ==
    /\ HouseholdInsightsBuilt
    /\ HouseholdCount(0) = 0
    /\ HouseholdCount(4) > 0
    /\ aggResult.out.householdInsights.pctSingle = JNull
    /\ aggResult.out.householdInsights.pctMultiUnitHousing # JNull

\* The record of the local dataset that holds the counts of the rows of a
\* fetch: every age band the sum of its two cells, every ethnicity
\* category the count of its variable.
LocalEquivalent ==
    [age |-> [b \in Range(AgeBands) |->
                 LET k == CHOOSE i \in 1..Len(AgeBands) : AgeBands[i] = b
                 IN  JNum(FiniteValue(aggInput.ageData[k + 1])
                          + FiniteValue(aggInput.ageData[k + 24]))],
     ethnicityBreakdown |->
         [c \in DOMAIN EthnicityVariable \cup {"total"} |->
             ToNumber(CellOf(aggInput.ethnicity, ethnicityVars,
                             IF c = "total" THEN "B03002_001E"
                             ELSE EthnicityVariable[c]))]]

\* C30: for the same underlying counts a record of the local dataset and a
\* record built from API rows give the same generational breakdown, the
\* same ethnicity breakdown and an income distribution of the same ranges.
LocalAndParsedRecordsAgree ==
    /\ (aggResult.fn = "buildCountyStatsHTML" /\ aggInput.kind = "census") =>
          /\ aggResult.out.generations = generationsSection(LocalEquivalent)
          /\ \A c \in DOMAIN EthnicityVariable :
                aggResult.out.ethnicity[c] =
                    Fixed100(LocalEquivalent.ethnicityBreakdown[c],
                             LocalEquivalent.ethnicityBreakdown.total)
    /\ aggResult.fn = "fetchCountyStats" =>
          Len(aggResult.out.incomeDist) = Len(BracketKeys)

\* C31: a history entry is a snapshot: a step that records no visit of
\* its unit leaves its fields as they are, whatever happens to the stored
\* record of the unit.
HistoryEntryIsSnapshot ==
    [][\A i \in 1..Len(countyHistory) :
          LET e == countyHistory[i]
          IN  (lastOp'.entry = NoEntry \/ lastOp'.entry.fips # e.fips) =>
                  \A j \in 1..Len(countyHistory') :
                      countyHistory'[j].fips = e.fips => countyHistory'[j] = e
       ]_vars

\* A unit has its snapshot in the history, taken from a stored record that
\* it no longer matches or that a fetch still under way is about to replace.
SnapshotApartFromStoredRecord ==
    \E i \in 1..Len(countyHistory) :
        LET e == countyHistory[i]
        IN  /\ demographicsData[e.fips] # NoData
            /\ \/ inFlight[e.fips] > 0
               \/ e # Entry(e.fips, demographicsData[e.fips])
            /\ lastOp.entry # NoEntry
            /\ lastOp.entry.fips # e.fips

\* C32: the pinned baseline is none or the identifier of an entry that is
\* in the history now.
PinnedBaselineInHistory ==
    \/ pinnedBaselineFips = None
    \/ \E i \in 1..Len(countyHistory) :
          countyHistory[i].fips = pinnedBaselineFips

\* The step opened the detail of a county on the click path with its record
\* at hand: a click on a county with a stored record, a fetch that
\* succeeded, or the fallback of a failed statistics fetch on a county with
\* a stored record.
OpenedWithRecord ==
    \/ /\ lastOp'.op \in {"openCountyModal", "statsFailed"}
       /\ demographicsData[lastOp'.arg] # NoData
    \/ lastOp'.op = "fetchResolved"

\* The step opened the detail of a county on the double-click path with its
\* statistics at hand: from the cache, or from a fetch that succeeded.
OpenedWithStats ==
    \/ /\ lastOp'.op = "openCountyModalWithACS"
       /\ lastOp'.arg \in DOMAIN cache
    \/ lastOp'.op = "statsResolved"

\* Every card of the panel shows the trends of its entry against the
\* baseline in force.
PanelRecomputed ==
    /\ Len(historyPanel') = Len(countyHistory')
    /\ \A i \in 1..Len(countyHistory') :
          \E c \in 1..Len(historyPanel') :
              /\ historyPanel'[c].entry = countyHistory'[i]
              /\ historyPanel'[c].trends =
                     compareToBaseline(countyHistory', pinnedBaselineFips', i)

\* C33: when the detail of a unit is opened with its data at hand, the
\* snapshot of the unit is the first entry of the history right afterwards
\* and the trends of all entries are recomputed against the baseline.
OpenedUnitHeadsHistory ==
    [][/\ OpenedWithRecord =>
              /\ countyHistory' # <<>>
              /\ countyHistory'[1] =
                     Entry(lastOp'.arg, demographicsData'[lastOp'.arg])
              /\ PanelRecomputed
       /\ OpenedWithStats =>
              /\ countyHistory' # <<>>
              /\ countyHistory'[1].fips = lastOp'.arg
              /\ countyHistory'[1].medianIncome =
                     cache'[lastOp'.arg].medianIncome
              /\ PanelRecomputed
      ]_vars

\* A statistics fetch succeeded while an older entry was pinned: the unit
\* heads the history and its card shows trends against the pinned entry.
OpenedUnitHeadsPinnedHistory ==
    /\ lastOp.op = "statsResolved"
    /\ Len(countyHistory) >= 2
    /\ countyHistory[1].fips = lastOp.arg
    /\ pinnedBaselineFips = countyHistory[2].fips
    /\ historyPanel[2].entry = countyHistory[1]
    /\ historyPanel[2].trends # NoTrends
    /\ historyPanel[2].trends.medianIncome = "up"

\* The breakdown was taken of an age mapping the parser returned.
BreakdownOfParsedAges ==
    /\ aggResult.fn = "calculateGenerationalBreakdown"
    /\ "age" \in DOMAIN aggResult

BracketFloors ==
    <<0, 10000, 15000, 20000, 25000, 30000, 35000, 40000, 45000, 50000,
      60000, 75000, 100000, 125000, 150000, 200000>>
RangeFloors == <<0, 25000, 50000, 75000, 100000>>

\* The canonical range whose bounds contain raw bracket k
RangeOfBracket(k) ==
    CHOOSE i \in 1..Len(RangeFloors) :
        /\ RangeFloors[i] <= BracketFloors[k]
        /\ i < Len(RangeFloors) => BracketFloors[k] < RangeFloors[i + 1]

\* The cells of a detail row that hold the raw brackets of range i: bracket
\* k is cell k + 2 of the row, after the name and the total
CellsOfRange(i) ==
    { k + 2 : k \in { b \in 1..Len(BracketFloors) : RangeOfBracket(b) = i } }

\* No bracket cell of the detail row holds a negative count.
NoNegativeBracket ==
    \A q \in 3..18 : FiniteValue(aggInput.detRow[q]) >= 0

\* C35: each of the 16 raw brackets is added to exactly one canonical
\* range, the one whose bounds contain its income bounds, so each range
\* percentage is the share of the brackets within the range.
BracketsCollapseIntoTheirRange ==
    (aggResult.fn = "fetchCountyStats" /\ NoNegativeBracket) =>
        /\ \A k \in 1..Len(BracketFloors) :
              /\ Cardinality({ i \in 1..Len(IncomeSlices) :
                     k + 1 \in IncomeSlices[i][1]..(IncomeSlices[i][2] - 1) })
                     = 1
              /\ k + 1 \in IncomeSlices[RangeOfBracket(k)][1]
                             ..(IncomeSlices[RangeOfBracket(k)][2] - 1)
        /\ LET total == num(aggInput.detRow[2])
           IN  (total.t = "number" /\ total.v > 0) =>
                   \A i \in 1..Len(IncomeLabels) :
                       IsRoundedShare(aggResult.out.incomeDist[i].pct.v,
                                      CellSum(aggInput.detRow, CellsOfRange(i)),
                                      total.v)

\* The double-click statistics fetches that are outstanding
DblClickFetches == { r \in DOMAIN statsInFlight : r.caller = "dblclick" }

\* C36: the loading overlay is visible exactly while at least one
\* double-click statistics fetch is in flight.
OverlayShownWhileFetching == loadingOverlay <=> DblClickFetches # {}

\* C37: a loading overlay that is shown is hidden again once the fetches
\* settle, whether they succeed or fail.
OverlayEventuallyHidden == loadingOverlay ~> ~loadingOverlay

OverlayHiddenAfterFailure ==
    /\ lastOp.op = "statsFailed"
    /\ ~loadingOverlay
    /\ DblClickFetches = {}

\* C38: when the double-click statistics fetch of a county fails, the
\* single-click path runs for that county: a local record is displayed and
\* recorded in history, otherwise a regular fetch is started and the
\* history is left alone; the statistics cache keeps its content.
AcsFailureFallsBack ==
    [][(lastOp'.op = "statsFailed" /\ lastOp'.arg \in CountyIds) =>
          LET f == lastOp'.arg
          IN  /\ cache' = cache
              /\ modalActive'
              /\ IF demographicsData[f] # NoData
                 THEN /\ modalView' = View("data", f)
                      /\ countyHistory' =
                            recordCountyHistory(countyHistory,
                                                Entry(f, demographicsData[f]))
                      /\ inFlight' = inFlight
                 ELSE /\ modalView' = View("loading", f)
                      /\ inFlight' = [inFlight EXCEPT ![f] = @ + 1]
                      /\ countyHistory' = countyHistory]_vars

AcsFailureShowedLocalRecord ==
    /\ lastOp.op = "statsFailed"
    /\ lastOp.entry # NoEntry
    /\ modalView = View("data", lastOp.arg)
    /\ countyHistory # <<>>
    /\ countyHistory[1] = lastOp.entry
    /\ lastOp.arg \notin DOMAIN cache

\* C39: every result of the generational breakdown other than null has the
\* per-cohort counts, the per-cohort percentages and the total, whatever
\* the total is.
BreakdownStructureForAnyTotal ==
    (aggResult.fn = "calculateGenerationalBreakdown"
         /\ aggResult.out # NoBreakdown) =>
        DOMAIN aggResult.out = {"counts", "percentages", "total"}

\* C40: at most one demo tour drives the application: once a tour has been
\* stopped and a new one started, a sleep of the earlier tour that ends
\* only makes that tour return; the steps behind it do not run.
OnlyNewestTourDrives ==
    [][\A i \in 1..Len(tours) :
          (/\ tours[i].pc \in CheckedSleeps
           /\ tours'[i].pc # tours[i].pc
           /\ i < Len(tours))
              => tours'[i].pc = "done"]_vars

====
